---------------------------- MODULE Spec2Model ----------------------------
(***************************************************************************)
(* Model of the polyomino jigsaw solver: GameBoard (src/models/board.py),  *)
(* the piece multiset as a Python dict, and the generator                  *)
(* solve_backtracking (src/logic/solver.py) driven by a consumer that      *)
(* requests steps with next() and may close() the generator.               *)
(***************************************************************************)
EXTENDS Integers, Sequences, FiniteSets, TLC

(***************************************************************************)
(* Bounds of the model.                                                    *)
(***************************************************************************)
MaxCells == 6
MaxBlocked == 1
MaxCount == 2

(***************************************************************************)
(* Cells, shapes and pieces.                                               *)
(***************************************************************************)
None == <<-1, -1>>

CellLess(a, b) == a[1] < b[1] \/ (a[1] = b[1] /\ a[2] < b[2])

MinCell(S) == CHOOSE a \in S : \A b \in S : a = b \/ CellLess(a, b)

RECURSIVE SortedCells(_)
SortedCells(S) ==
    IF S = {} THEN << >>
    ELSE LET m == MinCell(S) IN << m >> \o SortedCells(S \ {m})

RECURSIVE SeqLess(_, _)
SeqLess(s, t) ==
    IF s = << >> \/ t = << >> THEN s = << >> /\ t # << >>
    ELSE IF s[1] = t[1] THEN SeqLess(Tail(s), Tail(t))
    ELSE CellLess(s[1], t[1])

ShapeLess(A, B) == SeqLess(SortedCells(A), SortedCells(B))

Transform(k, cell) ==
    LET r == cell[1]
        c == cell[2]
    IN CASE k = 1 -> << r, c >>
         [] k = 2 -> << -r, c >>
         [] k = 3 -> << r, -c >>
         [] k = 4 -> << -r, -c >>
         [] k = 5 -> << c, r >>
         [] k = 6 -> << -c, r >>
         [] k = 7 -> << c, -r >>
         [] k = 8 -> << -c, -r >>

\* a Normalize that moves the minimum row to zero and leaves the columns
Normalize_rows_only(S) ==
    LET mr == CHOOSE r \in {x[1] : x \in S} : \A y \in S : r <= y[1]
    IN {<< x[1] - mr, x[2] >> : x \in S}

Normalize(S) ==
    LET mr == CHOOSE r \in {x[1] : x \in S} : \A y \in S : r <= y[1]
        mc == CHOOSE c \in {x[2] : x \in S} : \A y \in S : c <= y[2]
    IN {<< x[1] - mr, x[2] - mc >> : x \in S}

\* an orientation set without the four transforms that swap row and column
OrientationSet_unswapped(S) == {Normalize({Transform(k, x) : x \in S}) : k \in 1..4}

OrientationSet(S) == {Normalize({Transform(k, x) : x \in S}) : k \in 1..8}

\* a canonical shape that is the drawn shape, moved to the corner
CanonicalShape_as_drawn(S) == Normalize(S)

\* the orientation whose sorted cells come first (each orientation is sorted
\* once)
CanonicalShape(S) ==
    LET sorted == {SortedCells(o) : o \in OrientationSet(S)}
        least == CHOOSE s \in sorted : \A t \in sorted : s = t \/ SeqLess(s, t)
    IN {least[i] : i \in 1..Len(least)}

RECURSIVE SortedShapes(_)
SortedShapes(SS) ==
    IF SS = {} THEN << >>
    ELSE LET m == CHOOSE o \in SS : \A o2 \in SS : o = o2 \/ ShapeLess(o, o2)
         IN << m >> \o SortedShapes(SS \ {m})

\* PuzzlePiece(shape): canonical shape and orientation set, computed once
PuzzlePiece(shape) ==
    [canonical_shape |-> CanonicalShape(shape),
     orientations |-> OrientationSet(shape)]

\* The shapes a user may draw; a piece is identified with its canonical shape.
DrawnShapes ==
    { {<<0, 0>>},
      {<<0, 0>>, <<0, 1>>},
      {<<0, 0>>, <<1, 0>>, <<1, 1>>} }

PieceCatalogue == {CanonicalShape(S) : S \in DrawnShapes}

\* Pieces with two of the same area: a domino, a straight and a bent tromino.
TieShapes ==
    { {<<0, 0>>, <<0, 1>>},
      {<<0, 0>>, <<0, 1>>, <<0, 2>>},
      {<<0, 0>>, <<1, 0>>, <<1, 1>>} }

TieCatalogue == {CanonicalShape(S) : S \in TieShapes}

\* piece.orientations, in the order the solver iterates them
OrientationsOf ==
    [p \in PieceCatalogue \cup TieCatalogue |-> SortedShapes(OrientationSet(p))]

Area(p) == Cardinality(p)


(***************************************************************************)
(* GameBoard.  A board is a record [width, height, blocked_cells, cells];  *)
(* cells maps <<row, col>> to EMPTY (Python None), BLOCKED (-1) or the     *)
(* tag hash(shape) of the shape placed on it.                              *)
(***************************************************************************)
EMPTY == 0
BLOCKED == -1
HashBase == MaxCells + 2

CellsOf(width, height) == (0..(height - 1)) \X (0..(width - 1))

\* hash(shape): an integer that depends on the shape alone (not on where it
\* is placed), distinct for distinct shapes, never EMPTY or BLOCKED.
RECURSIVE Pow2(_)
Pow2(n) == IF n = 0 THEN 1 ELSE 2 * Pow2(n - 1)

RECURSIVE ShapeHash(_)
ShapeHash(shape) ==
    IF shape = {} THEN 0
    ELSE CHOOSE h \in {Pow2(x[1] * HashBase + x[2]) + ShapeHash(shape \ {x}) :
                         x \in {MinCell(shape)}} : TRUE

GameBoard(width, height, blocked) ==
    [width |-> width,
     height |-> height,
     blocked_cells |-> blocked,
     cells |-> [x \in CellsOf(width, height) |->
                   IF x \in blocked THEN BLOCKED ELSE EMPTY]]

Translate(shape, position) ==
    {<< position[1] + x[1], position[2] + x[2] >> : x \in shape}

\* a can_place_shape without the test against blocked_cells
can_place_shape_unblocked(b, shape, position) ==
    \A x \in Translate(shape, position) :
        /\ 0 <= x[1] /\ x[1] < b.height /\ 0 <= x[2] /\ x[2] < b.width
        /\ ~(b.cells[x] # EMPTY /\ b.cells[x] # BLOCKED)

\* a can_place_shape without the test for cells occupied by a shape
can_place_shape_overlapping(b, shape, position) ==
    \A x \in Translate(shape, position) :
        /\ 0 <= x[1] /\ x[1] < b.height /\ 0 <= x[2] /\ x[2] < b.width
        /\ x \notin b.blocked_cells

can_place_shape(b, shape, position) ==
    \A x \in Translate(shape, position) :
        /\ 0 <= x[1] /\ x[1] < b.height /\ 0 <= x[2] /\ x[2] < b.width
        /\ x \notin b.blocked_cells
        /\ ~(b.cells[x] # EMPTY /\ b.cells[x] # BLOCKED)

\* a place_shape that marks cell after cell and raises at the first cell that
\* does not fit, leaving the cells marked so far
place_shape_partial(b, shape, position) ==
    IF ~can_place_shape(b, shape, position)
    THEN [raised |-> TRUE,
          board |-> [b EXCEPT !.cells =
                       [x \in DOMAIN b.cells |->
                          IF x \in Translate(shape, position) /\ b.cells[x] = EMPTY
                          THEN ShapeHash(shape) ELSE b.cells[x]]]]
    ELSE [raised |-> FALSE,
          board |-> [b EXCEPT !.cells =
                       [x \in DOMAIN b.cells |->
                          IF x \in Translate(shape, position)
                          THEN ShapeHash(shape) ELSE b.cells[x]]]]

\* place_shape: raised is TRUE when the ValueError is raised (board unchanged)
place_shape(b, shape, position) ==
    IF ~can_place_shape(b, shape, position)
    THEN [raised |-> TRUE, board |-> b]
    ELSE [raised |-> FALSE,
          board |-> [b EXCEPT !.cells =
                       [x \in DOMAIN b.cells |->
                          IF x \in Translate(shape, position)
                          THEN ShapeHash(shape) ELSE b.cells[x]]]]

\* Python list indexing: index i of a list of length n
PyIndexOk(i, n) == -n <= i /\ i < n
PyIndex(i, n) == IF i < 0 THEN i + n ELSE i

\* the grid cell that self._cells[row][col] reads
GridCell(b, x) == << PyIndex(x[1], b.height), PyIndex(x[2], b.width) >>

GridCellOk(b, x) == PyIndexOk(x[1], b.height) /\ PyIndexOk(x[2], b.width)

\* a remove_shape that clears every cell carrying the shape's tag
remove_shape_by_tag(b, shape, position) ==
    LET T == Translate(shape, position)
    IN IF \E x \in T : ~GridCellOk(b, x) \/ b.cells[GridCell(b, x)] # ShapeHash(shape)
       THEN [raised |-> TRUE, board |-> b]
       ELSE [raised |-> FALSE,
             board |-> [b EXCEPT !.cells =
                          [y \in DOMAIN b.cells |->
                             IF b.cells[y] = ShapeHash(shape)
                             THEN EMPTY ELSE b.cells[y]]]]

\* a remove_shape whose check loop always raises
remove_shape_raising(b, shape, position) == [raised |-> TRUE, board |-> b]

\* remove_shape: raised is TRUE when the check loop raises (ValueError on a
\* cell with another content, IndexError on a cell off the lists).
remove_shape(b, shape, position) ==
    LET T == Translate(shape, position)
    IN IF \E x \in T : ~GridCellOk(b, x) \/ b.cells[GridCell(b, x)] # ShapeHash(shape)
       THEN [raised |-> TRUE, board |-> b]
       ELSE [raised |-> FALSE,
             board |-> [b EXCEPT !.cells =
                          [y \in DOMAIN b.cells |->
                             IF \E x \in T : GridCell(b, x) = y
                             THEN EMPTY ELSE b.cells[y]]]]

get_piece_at(b, position) == b.cells[position]

(***************************************************************************)
(* Python dict: keys in insertion order and the value of each key.         *)
(***************************************************************************)
EmptyDict == [keys |-> << >>, cnt |-> << >>]

DictHas(d, k) == k \in DOMAIN d.cnt

DictGet(d, k, default) == IF DictHas(d, k) THEN d.cnt[k] ELSE default

DictSet(d, k, v) ==
    IF DictHas(d, k)
    THEN [d EXCEPT !.cnt[k] = v]
    ELSE [keys |-> Append(d.keys, k), cnt |-> (d.cnt @@ (k :> v))]

DictDel(d, k) ==
    [keys |-> SelectSeq(d.keys, LAMBDA x : x # k),
     cnt |-> [x \in (DOMAIN d.cnt) \ {k} |-> d.cnt[x]]]

DictIsEmpty(d) == d.keys = << >>

RECURSIVE SumCounts(_, _)
SumCounts(d, K) ==
    IF K = {} THEN 0
    ELSE LET k == CHOOSE k \in K : TRUE
         IN d.cnt[k] + SumCounts(d, K \ {k})

DictTotal(d) == SumCounts(d, DOMAIN d.cnt)

(***************************************************************************)
(* State.                                                                  *)
(*  input        the mapping the caller built, as it was before the call   *)
(*  heap         the dict objects: heap[piecesRef] is the caller's pieces, *)
(*               heap[remainingRef] the solver's remaining                 *)
(*  board        the GameBoard handed to the solver (mutated in place)     *)
(*  placed       the solver's list of (shape, position, piece) records     *)
(*  piece_types  the piece types in the order the solver tries them        *)
(*  frames       the suspended backtrack() frames, outermost first: each   *)
(*               holds its cell, the index of the piece and orientation it *)
(*               has placed, and its local count                           *)
(*  step_count   the solver's step counter                                 *)
(*  gen          where the generator is suspended                          *)
(*  events       the events yielded so far (type and step_count)           *)
(*  result       what the consumer's latest call returned or raised        *)
(* For a GameBoard driven directly through its methods (BoardSpec):        *)
(*  built        the arguments the board was constructed with              *)
(*  live         the (shape, position) pairs placed and not removed since  *)
(* For pieces (PieceSpec):                                                 *)
(*  drawn        the two cell sets the user drew                           *)
(* For the second of two runs on equal inputs:                             *)
(*  twin         the events of a run consumed to its end without a pause   *)
(* For puzzle configurations (ConfigSpec, ImportSpec):                     *)
(*  config       the PuzzleConfiguration                                   *)
(*  data         the dictionary a configuration is built from              *)
(***************************************************************************)
VARIABLES input, heap, piecesRef, remainingRef, board, placed, piece_types,
          frames, step_count, gen, events, result,
          built, live, drawn, config, data, twin, window, editor,
          puzzle_board

vars == << input, heap, piecesRef, remainingRef, board, placed, piece_types,
           frames, step_count, gen, events, result, built, live, drawn,
           config, data, twin, window, editor,
           puzzle_board >>

\* what a search leaves alone: the direct board calls and the drawn shapes
apiVars == << built, live, drawn, config, data, twin, window, editor,
           puzzle_board >>

NoDrawing == << {}, {} >>

\* no configuration built, no dictionary read
NoConfig ==
    [name |-> << >>, board_width |-> 0, board_height |-> 0,
     blocked_cells |-> {}, pieces |-> EmptyDict]

NoData == [name |-> << >>, board_width |-> 0, board_height |-> 0, pieces |-> << >>]

\* no event handed to the board widget
NoEvent == [type |-> "none", step_count |-> 0, placed |-> << >>]

\* _generator is None
NoGenerator == [made |-> FALSE, run |-> << >>, yielded |-> 0]

Label(text, step) == [text |-> text, step |-> step]

\* no visualization window opened
NoWindow ==
    [generator |-> NoGenerator, searches |-> 0, timer_active |-> FALSE,
     is_playing |-> FALSE, status |-> Label("", 0), button |-> "",
     slider |-> 0, interval |-> 0, delay_ms |-> 0,
     event |-> NoEvent, late |-> FALSE, last |-> "none", prev |-> "none"]

\* no editor window opened
NoEditor ==
    [pieces |-> EmptyDict, selected |-> {}, filled |-> {},
     width |-> 0, height |-> 0,
     grid |-> [width |-> 0, height |-> 0, blocked |-> {}],
     loaded |-> NoConfig]

\* no PuzzleBoard made
NoPuzzleBoard ==
    [width |-> 0, height |-> 0, filled_cells |-> {}, placed_pieces |-> << >>,
     initial |-> {}, raised |-> "none"]

Pieces == heap[piecesRef]
Remaining == heap[remainingRef]

TerminalTypes == {"solved", "no_solution"}

(***************************************************************************)
(* The inputs: boards and piece mappings.                                  *)
(***************************************************************************)
\* The dicts a caller may pass: any pieces of the catalogue, inserted in the
\* order of CatalogueOrder, each with a count of 0..MaxCount.
CatalogueOrder == SortedShapes(PieceCatalogue)

InputDicts ==
    UNION {{[keys |-> SelectSeq(CatalogueOrder, LAMBDA p : p \in K), cnt |-> c] :
              c \in [K -> 0..MaxCount]} :
           K \in SUBSET PieceCatalogue}

\* The boards a caller may build: every width and height of at most MaxCells
\* cells in all, with at most MaxBlocked blocked cells.
InputBoards ==
    UNION {{GameBoard(d[1], d[2], B) :
              B \in {X \in SUBSET CellsOf(d[1], d[2]) : Cardinality(X) <= MaxBlocked}} :
           d \in {e \in (1..MaxCells) \X (1..MaxCells) : e[1] * e[2] <= MaxCells}}

(***************************************************************************)
(* solve_backtracking.                                                     *)
(***************************************************************************)
\* remaining = pieces, without the copy
CopyTarget_alias(ref) == ref

\* pieces.copy(): the object that remaining names (a new one)
CopyTarget(ref) == ref + 1

\* a sort that orders equal areas by canonical shape
RECURSIVE SortByAreaDesc_then_shape(_)
SortByAreaDesc_then_shape(ks) ==
    IF ks = << >> THEN << >>
    ELSE LET i == CHOOSE i \in 1..Len(ks) :
                    \A j \in 1..Len(ks) :
                       \/ j = i
                       \/ Cardinality(ks[j]) < Cardinality(ks[i])
                       \/ /\ Cardinality(ks[j]) = Cardinality(ks[i])
                          /\ ShapeLess(ks[i], ks[j])
         IN << ks[i] >> \o
            SortByAreaDesc_then_shape(SubSeq(ks, 1, i - 1) \o SubSeq(ks, i + 1, Len(ks)))

\* sorted(keys, key=area, reverse=True): stable, equal areas keep their order
RECURSIVE SortByAreaDesc(_)
SortByAreaDesc(ks) ==
    IF ks = << >> THEN << >>
    ELSE LET i == CHOOSE i \in 1..Len(ks) :
                    /\ \A j \in 1..Len(ks) : Area(ks[j]) <= Area(ks[i])
                    /\ \A j \in 1..(i - 1) : Area(ks[j]) < Area(ks[i])
         IN << ks[i] >> \o
            SortByAreaDesc(SubSeq(ks, 1, i - 1) \o SubSeq(ks, i + 1, Len(ks)))

RECURSIVE FirstEmptyFrom(_, _, _)
FirstEmptyFrom(b, row, col) ==
    IF row >= b.height THEN None
    ELSE IF col >= b.width THEN FirstEmptyFrom(b, row + 1, 0)
    ELSE IF get_piece_at(b, << row, col >>) = EMPTY THEN << row, col >>
    ELSE FirstEmptyFrom(b, row, col + 1)

\* a scan that goes down the columns, left to right
RECURSIVE FirstEmptyDown(_, _, _)
FirstEmptyDown(b, row, col) ==
    IF col >= b.width THEN None
    ELSE IF row >= b.height THEN FirstEmptyDown(b, 0, col + 1)
    ELSE IF get_piece_at(b, << row, col >>) = EMPTY THEN << row, col >>
    ELSE FirstEmptyDown(b, row + 1, col)

find_next_empty_by_column(b) == FirstEmptyDown(b, 0, 0)

find_next_empty(b) == FirstEmptyFrom(b, 0, 0)

\* the orientation's own origin put on the target cell
Origin_unadjusted(cell, orientation) == cell

\* the origin that puts the orientation's top-left cell on the target cell
Origin(cell, orientation) ==
    LET top_left_cell == MinCell(orientation)
    IN << cell[1] - top_left_cell[1], cell[2] - top_left_cell[2] >>

\* the skip test of the piece loop
SkipPiece(count) == count <= 0

\* The loops over piece_types and piece.orientations from position (pi, oi)
\* on, up to the first orientation that can be placed.  fresh: the piece pi
\* is entered from the for statement, so count is read from remaining.
RECURSIVE Search(_, _, _, _, _, _, _, _)
Search(b, rem, types, cell, pi, oi, count, fresh) ==
    IF pi > Len(types) THEN [found |-> FALSE]
    ELSE LET piece == types[pi]
             cnt == IF fresh THEN DictGet(rem, piece, 0) ELSE count
         IN IF fresh /\ SkipPiece(cnt)
            THEN Search(b, rem, types, cell, pi + 1, 1, 0, TRUE)
            ELSE IF oi > Len(OrientationsOf[piece])
            THEN Search(b, rem, types, cell, pi + 1, 1, 0, TRUE)
            ELSE LET orientation == OrientationsOf[piece][oi]
                     origin == Origin(cell, orientation)
                 IN IF can_place_shape(b, orientation, origin)
                    THEN [found |-> TRUE, pi |-> pi, oi |-> oi, count |-> cnt,
                          piece |-> piece, orientation |-> orientation,
                          origin |-> origin]
                    ELSE Search(b, rem, types, cell, pi, oi + 1, cnt, FALSE)

\* remaining[piece] = count - 1, deleted when it reaches 0
TakePiece(rem, piece, count) ==
    LET r == DictSet(rem, piece, count - 1)
    IN IF r.cnt[piece] = 0 THEN DictDel(r, piece) ELSE r

\* a backtrack that does not give the piece back
RestorePiece_lost(rem, p) == rem

\* remaining[p] = remaining.get(p, 0) + 1
RestorePiece(rem, p) == DictSet(rem, p, DictGet(rem, p, 0) + 1)

\* a solver without the early exit
AlreadySolved_never(rem) == FALSE

\* the test for a multiset with nothing to place, before the search starts
AlreadySolved(rem) == DictIsEmpty(rem)

\* a backtrack() that goes on after its solved event
SolvedReturn_false == FALSE

\* what backtrack() returns after its solved event
SolvedReturn == TRUE

\* the step counter of the next place, remove or solved event
NextStep(n) == n + 1

\* a no_solution event that counts as a step
NoSolutionStep_counted(n) == n + 1

\* the step counter of the no_solution event
NoSolutionStep(n) == n

\* a placement whose frame, when it goes on after its remove, tries the
\* orientation it has just taken back once more
DoPlace_tried_again(st, cell, c) ==
    LET p == place_shape(st.board, c.orientation, c.origin)
    IN IF p.raised THEN [st EXCEPT !.ev = "raised"]
       ELSE [board |-> p.board,
             rem |-> TakePiece(st.rem, c.piece, c.count),
             placed |-> Append(st.placed,
                               [shape |-> c.orientation, pos |-> c.origin,
                                piece |-> c.piece]),
             frames |-> Append(st.frames,
                               [cell |-> cell, pi |-> c.pi, oi |-> c.oi - 1,
                                count |-> c.count]),
             step |-> NextStep(st.step),
             ev |-> "place"]

\* The solver's mutable state between two yields, and the event it yields:
\* [board, rem, placed, frames, step, ev], ev one of place, remove, solved,
\* no_solution, or raised when an exception leaves the generator.
DoPlace(st, cell, c) ==
    LET p == place_shape(st.board, c.orientation, c.origin)
    IN IF p.raised THEN [st EXCEPT !.ev = "raised"]
       ELSE [board |-> p.board,
             rem |-> TakePiece(st.rem, c.piece, c.count),
             placed |-> Append(st.placed,
                               [shape |-> c.orientation, pos |-> c.origin,
                                piece |-> c.piece]),
             frames |-> Append(st.frames,
                               [cell |-> cell, pi |-> c.pi, oi |-> c.oi,
                                count |-> c.count]),
             step |-> NextStep(st.step),
             ev |-> "place"]

\* a backtrack part that takes two shapes off the board before its event
DoRemove_twice(st) ==
    LET n == Len(st.placed)
        rec == st.placed[n]
        popped == SubSeq(st.placed, 1, n - 1)
        r == remove_shape(st.board, rec.shape, rec.pos)
        r2 == IF n >= 2 /\ ~r.raised
              THEN remove_shape(r.board, st.placed[n - 1].shape, st.placed[n - 1].pos)
              ELSE r
    IN IF r.raised \/ r2.raised THEN [st EXCEPT !.placed = popped, !.ev = "raised"]
       ELSE [st EXCEPT !.board = r2.board,
                       !.rem = RestorePiece(st.rem, rec.piece),
                       !.placed = popped,
                       !.step = NextStep(st.step),
                       !.ev = "remove"]

\* a backtrack part that pops the record and leaves its shape on the board
DoRemove_board_kept(st) ==
    [st EXCEPT !.rem = RestorePiece(st.rem, st.placed[Len(st.placed)].piece),
               !.placed = SubSeq(st.placed, 1, Len(st.placed) - 1),
               !.step = NextStep(st.step),
               !.ev = "remove"]

\* a backtrack part that takes back the oldest record, not the latest
DoRemove_oldest(st) ==
    LET rec == st.placed[1]
        popped == Tail(st.placed)
        r == remove_shape(st.board, rec.shape, rec.pos)
    IN IF r.raised THEN [st EXCEPT !.placed = popped, !.ev = "raised"]
       ELSE [st EXCEPT !.board = r.board,
                       !.rem = RestorePiece(st.rem, rec.piece),
                       !.placed = popped,
                       !.step = NextStep(st.step),
                       !.ev = "remove"]

\* a failed search that reports no_solution from the innermost call, with
\* nothing taken back
ReturnedFalse_at_once(st) ==
    [st EXCEPT !.step = NoSolutionStep(st.step), !.ev = "no_solution"]

\* the backtrack part of the frame on top of st.frames
DoRemove(st) ==
    LET rec == st.placed[Len(st.placed)]
        popped == SubSeq(st.placed, 1, Len(st.placed) - 1)
        r == remove_shape(st.board, rec.shape, rec.pos)
    IN IF r.raised THEN [st EXCEPT !.placed = popped, !.ev = "raised"]
       ELSE [st EXCEPT !.board = r.board,
                       !.rem = RestorePiece(st.rem, rec.piece),
                       !.placed = popped,
                       !.step = NextStep(st.step),
                       !.ev = "remove"]

\* a failed search that raises instead of yielding no_solution
ReturnedFalse_raising(st) ==
    IF st.frames = << >>
    THEN [st EXCEPT !.ev = "raised"]
    ELSE DoRemove(st)

\* a backtrack() call returned False to the frame on top of st.frames, or to
\* solve_backtracking itself when there is none
ReturnedFalse(st) ==
    IF st.frames = << >>
    THEN [st EXCEPT !.step = NoSolutionStep(st.step), !.ev = "no_solution"]
    ELSE DoRemove(st)

\* the piece and orientation loops of a frame at cell, from (pi, oi) on
TryFrom(st, types, cell, pi, oi, count, fresh) ==
    CHOOSE r \in {IF c.found THEN DoPlace(st, cell, c) ELSE ReturnedFalse(st) :
                    c \in {Search(st.board, st.rem, types, cell, pi, oi, count,
                                  fresh)}} : TRUE

\* a new backtrack() call
Backtrack(st, types) ==
    LET cell == find_next_empty(st.board)
    IN IF cell = None
       THEN IF DictIsEmpty(st.rem)
            THEN [st EXCEPT !.step = NextStep(st.step), !.ev = "solved"]
            ELSE ReturnedFalse(st)
       ELSE TryFrom(st, types, cell, 1, 1, 0, TRUE)

(***************************************************************************)
(* The search written as the recursion of solver.py itself: a call of      *)
(* backtrack() runs to its return and hands back every event it yielded,   *)
(* each with the placement stack it carries.                               *)
(***************************************************************************)
RunEvent(st, t) ==
    [type |-> t, step_count |-> st.step, placed |-> st.placed]

RECURSIVE BacktrackRun(_, _)
RECURSIVE LoopRun(_, _, _, _, _, _, _)
\* backtrack(): st is [board, rem, placed, step, evs]; the result adds ok,
\* the value returned ("true", "false"), or "raised"
BacktrackRun(st, types) ==
    LET cell == find_next_empty(st.board)
    IN IF cell = None
       THEN IF DictIsEmpty(st.rem)
            THEN LET s1 == [st EXCEPT !.step = st.step + 1]
                 IN [st |-> [s1 EXCEPT !.evs = Append(st.evs, RunEvent(s1, "solved"))],
                     ok |-> "true"]
            ELSE [st |-> st, ok |-> "false"]
       ELSE LoopRun(st, types, cell, 1, 1, 0, TRUE)

\* the placement of candidate c: board.place_shape, the record, the count
PlaceRun(st, c) ==
    LET p == place_shape(st.board, c.orientation, c.origin)
        s1 == [board |-> p.board,
               rem |-> TakePiece(st.rem, c.piece, c.count),
               placed |-> Append(st.placed,
                                 [shape |-> c.orientation, pos |-> c.origin,
                                  piece |-> c.piece]),
               step |-> st.step + 1,
               evs |-> st.evs]
    IN IF p.raised THEN [st |-> st, ok |-> "raised"]
       ELSE [st |-> [s1 EXCEPT !.evs = Append(st.evs, RunEvent(s1, "place"))],
             ok |-> "placed"]

\* the backtrack of candidate c: pop, board.remove_shape, the count
RemoveRun(st, c) ==
    LET record == st.placed[Len(st.placed)]
        u == remove_shape(st.board, record.shape, record.pos)
        s3 == [board |-> u.board,
               rem |-> RestorePiece(st.rem, c.piece),
               placed |-> SubSeq(st.placed, 1, Len(st.placed) - 1),
               step |-> st.step + 1,
               evs |-> st.evs]
    IN IF u.raised THEN [st |-> st, ok |-> "raised"]
       ELSE [st |-> [s3 EXCEPT !.evs = Append(st.evs, RunEvent(s3, "remove"))],
             ok |-> "removed"]

\* the for loops of one backtrack() call at cell, from (pi, oi) on
LoopRun(st, types, cell, pi, oi, count, fresh) ==
    CHOOSE out \in
      {IF ~c.found THEN [st |-> st, ok |-> "false"]
       ELSE CHOOSE o1 \in
         {IF p.ok = "raised" THEN p
          ELSE CHOOSE o2 \in
            {IF r.ok # "false" THEN r
             ELSE CHOOSE o3 \in
               {IF u.ok = "raised" THEN u
                ELSE LoopRun(u.st, types, cell, c.pi, c.oi + 1, c.count, FALSE) :
                  u \in {RemoveRun(r.st, c)}} : TRUE :
               r \in {BacktrackRun(p.st, types)}} : TRUE :
            p \in {PlaceRun(st, c)}} : TRUE :
         c \in {Search(st.board, st.rem, types, cell, pi, oi, count, fresh)}} : TRUE

\* solve_backtracking(pieces, b) consumed to its end: the events of the run
RunOf(pieces, b) ==
    LET st0 == [board |-> b, rem |-> pieces, placed |-> << >>, step |-> 0,
                evs |-> << >>]
    IN IF DictIsEmpty(pieces)
       THEN << RunEvent(st0, "solved") >>
       ELSE CHOOSE evs \in
              {IF r.ok = "false"
               THEN Append(r.st.evs, RunEvent(r.st, "no_solution"))
               ELSE r.st.evs :
                 r \in {BacktrackRun(st0, SortByAreaDesc(pieces.keys))}} : TRUE

(***************************************************************************)
(* The generator and its consumer.                                         *)
(***************************************************************************)
Init ==
    /\ input \in InputDicts
    /\ board \in InputBoards
    /\ heap = [r \in 1..2 |-> IF r = 1 THEN input ELSE EmptyDict]
    /\ piecesRef = 1
    /\ remainingRef = 0
    /\ placed = << >>
    /\ piece_types = << >>
    /\ frames = << >>
    /\ step_count = 0
    /\ gen = "created"
    /\ events = << >>
    /\ result = "none"
    /\ built = [width |-> board.width, height |-> board.height,
                 blocked |-> board.blocked_cells]
    /\ live = {}
    /\ drawn = NoDrawing
    /\ config = NoConfig
    /\ data = NoData
    /\ twin = << >>
    /\ window = NoWindow
    /\ editor = NoEditor
    /\ puzzle_board = NoPuzzleBoard

\* a generator that resumes with the caller's counts, not with its copy
Current_recounted(ref) ==
    [board |-> board, rem |-> heap[piecesRef], placed |-> placed,
     frames |-> frames, step |-> step_count, ev |-> "none"]

\* the locals a suspended generator resumes with
Current(ref) ==
    [board |-> board, rem |-> heap[ref], placed |-> placed, frames |-> frames,
     step |-> step_count, ev |-> "none"]

\* the generator suspends at the yield of st.ev (position g), or dies of an
\* exception; ref is the dict object that remaining names
Yield(st, ref, g) ==
    /\ board' = st.board
    /\ heap' = [heap EXCEPT ![ref] = st.rem]
    /\ placed' = st.placed
    /\ frames' = st.frames
    /\ step_count' = st.step
    /\ IF st.ev = "raised"
       THEN /\ gen' = "finished"
            /\ events' = events
            /\ result' = "ValueError"
       ELSE /\ gen' = g
            /\ events' = Append(events, [type |-> st.ev, step_count |-> st.step])
            /\ result' = "event"

\* the generator returns: next() raises StopIteration
Return ==
    /\ gen' = "finished"
    /\ result' = "StopIteration"
    /\ UNCHANGED << board, heap, placed, frames, step_count, events >>

\* first next(): the body runs from the top to its first yield
Start ==
    /\ gen = "created"
    /\ \E ref \in {CopyTarget(piecesRef)}, rem0 \in {heap[piecesRef]} :
       \E types \in {SortByAreaDesc(rem0.keys)} :
       \E st0 \in {[board |-> board, rem |-> rem0, placed |-> << >>,
                    frames |-> << >>, step |-> 0, ev |-> "none"]} :
          /\ remainingRef' = ref
          /\ piece_types' = types
          /\ IF AlreadySolved(rem0)
             THEN Yield([st0 EXCEPT !.ev = "solved"], ref, "solved_early")
             ELSE \E st1 \in {Backtrack(st0, types)} : Yield(st1, ref, st1.ev)
    /\ UNCHANGED << input, piecesRef >>
    /\ UNCHANGED apiVars

\* next() at the place yield: the frame recurses
ResumeAfterPlace ==
    /\ gen = "place"
    /\ \E st0 \in {Current(remainingRef)} :
       \E st1 \in {Backtrack(st0, piece_types)} :
          Yield(st1, remainingRef, st1.ev)
    /\ UNCHANGED << input, piecesRef, remainingRef, piece_types >>
    /\ UNCHANGED apiVars

\* next() at the remove yield: the frame goes on with its next orientation
ResumeAfterRemove ==
    /\ gen = "remove"
    /\ \E top \in {frames[Len(frames)]} :
       \E st0 \in {[Current(remainingRef) EXCEPT
                      !.frames = SubSeq(frames, 1, Len(frames) - 1)]} :
       \E st1 \in {TryFrom(st0, piece_types, top.cell, top.pi, top.oi + 1,
                           top.count, FALSE)} :
          Yield(st1, remainingRef, st1.ev)
    /\ UNCHANGED << input, piecesRef, remainingRef, piece_types >>
    /\ UNCHANGED apiVars

\* next() at the solved yield of backtrack(): every frame returns True
ResumeAfterSolved ==
    /\ gen = "solved"
    /\ IF SolvedReturn
       THEN Return
       ELSE \E st0 \in {Current(remainingRef)} :
            \E st1 \in {ReturnedFalse(st0)} :
               Yield(st1, remainingRef, st1.ev)
    /\ UNCHANGED << input, piecesRef, remainingRef, piece_types >>
    /\ UNCHANGED apiVars

\* next() at the solved yield of the empty multiset, or at no_solution
ResumeAfterLast ==
    /\ gen \in {"solved_early", "no_solution"}
    /\ Return
    /\ UNCHANGED << input, piecesRef, remainingRef, piece_types >>
    /\ UNCHANGED apiVars

\* next() on a generator that has returned, raised or been closed
NextExhausted ==
    /\ gen \in {"finished", "closed"}
    /\ result' = "StopIteration"
    /\ UNCHANGED << input, heap, piecesRef, remainingRef, board, placed,
                    piece_types, frames, step_count, gen, events >>
    /\ UNCHANGED apiVars

\* generator.close()
Close ==
    /\ gen' = IF gen = "finished" THEN "finished" ELSE "closed"
    /\ result' = "closed"
    /\ UNCHANGED << input, heap, piecesRef, remainingRef, board, placed,
                    piece_types, frames, step_count, events >>
    /\ UNCHANGED apiVars

StepRequest ==
    \/ Start
    \/ ResumeAfterPlace
    \/ ResumeAfterRemove
    \/ ResumeAfterSolved
    \/ ResumeAfterLast
    \/ NextExhausted

Next == StepRequest \/ Close

Spec == Init /\ [][Next]_vars

\* the consumer keeps requesting steps and never closes the generator
LiveSpec == Init /\ [][StepRequest]_vars /\ WF_vars(StepRequest)

\* The same solver on mappings whose keys were inserted in any order, two of
\* them of the same area.
Orderings(K) ==
    {s \in [1..Cardinality(K) -> K] : \A i, j \in DOMAIN s : s[i] = s[j] => i = j}

OrderDicts ==
    UNION {{[keys |-> ks, cnt |-> c] : ks \in Orderings(K), c \in [K -> 0..MaxCount]} :
           K \in SUBSET TieCatalogue}

OrderBoards ==
    {GameBoard(d[1], d[2], {}) : d \in {<<3, 1>>, <<1, 3>>, <<3, 2>>, <<2, 3>>}}

\* the state before the first request, for a mapping of dicts and a board of
\* boards; twin is the run of a second, equal call when one is followed
StartOn(dicts, boards, followed) ==
    /\ input \in dicts
    /\ board \in boards
    /\ heap = [r \in 1..2 |-> IF r = 1 THEN input ELSE EmptyDict]
    /\ piecesRef = 1
    /\ remainingRef = 0
    /\ placed = << >>
    /\ piece_types = << >>
    /\ frames = << >>
    /\ step_count = 0
    /\ gen = "created"
    /\ events = << >>
    /\ result = "none"
    /\ built = [width |-> board.width, height |-> board.height,
                 blocked |-> board.blocked_cells]
    /\ live = {}
    /\ drawn = NoDrawing
    /\ config = NoConfig
    /\ data = NoData
    /\ twin = IF followed THEN RunOf(input, board) ELSE << >>
    /\ window = NoWindow
    /\ editor = NoEditor
    /\ puzzle_board = NoPuzzleBoard

OrderInit == StartOn(OrderDicts, OrderBoards, FALSE)

OrderSpec == OrderInit /\ [][Next]_vars

\* Two runs on an equal board and an equal mapping: one consumed to its end
\* at once (twin), one driven request by request.
TwinInit == StartOn(InputDicts, InputBoards, TRUE)

TwinSpec == TwinInit /\ [][Next]_vars

(***************************************************************************)
(* Vocabulary of the properties.                                           *)
(***************************************************************************)
LastEvent == events[Len(events)]

LastIs(t) == events # << >> /\ LastEvent.type = t

HasEvent(t) == \E i \in 1..Len(events) : events[i].type = t

\* the board as it was handed to the solver
StartBoard == GameBoard(board.width, board.height, board.blocked_cells)

FreeCells == (DOMAIN board.cells) \ board.blocked_cells

RecordCells(i) == Translate(placed[i].shape, placed[i].pos)

RecordsOf(p) == {i \in 1..Len(placed) : placed[i].piece = p}

\* a non-empty mapping of positive counts
InputPositive ==
    /\ ~DictIsEmpty(input)
    /\ \A p \in DOMAIN input.cnt : input.cnt[p] > 0

\* Some exact tiling of the cells in free uses each piece p exactly cnt[p]
\* times: some piece in some orientation covers an arbitrary free cell with
\* any of its cells, inside free, and the rest tiles what is left.
RECURSIVE CanTile(_, _)
CanTile(free, cnt) ==
    IF free = {}
    THEN \A p \in DOMAIN cnt : cnt[p] = 0
    ELSE LET x == CHOOSE x \in free : TRUE
         IN \E p \in DOMAIN cnt :
              /\ cnt[p] > 0
              /\ \E o \in OrientationSet(p) : \E a \in o :
                   LET T == Translate(o, << x[1] - a[1], x[2] - a[2] >>)
                   IN /\ T \subseteq free
                      /\ CanTile(free \ T, [cnt EXCEPT ![p] = @ - 1])

TilingExists == CanTile(FreeCells, input.cnt)

\* C1: when solved is emitted for a non-empty input of positive counts, the
\* board is an exact tiling: every non-blocked cell is covered by exactly one
\* record of the stack, no record covers a blocked or out-of-bounds cell, no
\* two records overlap, remaining is empty and the stack holds each piece
\* exactly as many times as its input count.
C1_SolvedIsExactTiling ==
    (InputPositive /\ LastIs("solved")) =>
        /\ \A x \in FreeCells :
             Cardinality({i \in 1..Len(placed) : x \in RecordCells(i)}) = 1
        /\ \A i \in 1..Len(placed) : RecordCells(i) \subseteq FreeCells
        /\ \A i, j \in 1..Len(placed) :
             i # j => RecordCells(i) \cap RecordCells(j) = {}
        /\ DictIsEmpty(Remaining)
        /\ \A p \in PieceCatalogue :
             Cardinality(RecordsOf(p)) = DictGet(input, p, 0)

C1_Witness ==
    /\ InputPositive
    /\ LastIs("solved")
    /\ HasEvent("remove")
    /\ board.blocked_cells # {}
    /\ Cardinality(DOMAIN input.cnt) >= 2

\* C2: for a non-empty input of positive counts the terminal event is solved
\* exactly when an exact tiling of the non-blocked cells exists that uses
\* every piece its count times; no_solution only when there is none.
C2_SolvedIffTilingExists ==
    (InputPositive /\ events # << >> /\ LastEvent.type \in TerminalTypes) =>
        (LastEvent.type = "solved" <=> TilingExists)

\* an unsolvable input whose pieces have exactly the area of the free cells
C2_Witness ==
    /\ InputPositive
    /\ LastIs("no_solution")
    /\ HasEvent("remove")
    /\ Cardinality(FreeCells) =
         SumCounts([keys |-> input.keys,
                    cnt |-> [p \in DOMAIN input.cnt |-> input.cnt[p] * Area(p)]],
                   DOMAIN input.cnt)

\* C3: a full event sequence holds exactly one terminal event and it is the
\* last one; no_solution is an event, never an exception.
C3_OneTerminalEventLast ==
    /\ \A i \in 1..(Len(events) - 1) : events[i].type \notin TerminalTypes
    /\ gen = "finished" => (events # << >> /\ LastEvent.type \in TerminalTypes)
    /\ result # "ValueError"

C3_Witness ==
    /\ gen = "finished"
    /\ LastIs("no_solution")
    /\ HasEvent("place")
    /\ result = "StopIteration"

C5_Terminates ==
    <>(events # << >> /\ LastEvent.type \in TerminalTypes)

C5_Witness ==
    /\ gen = "finished"
    /\ events # << >>
    /\ LastEvent.type \in TerminalTypes
    /\ Len(events) >= 10

\* the solver has run its first step
Started == remainingRef # 0

Terminated == events # << >> /\ LastEvent.type \in TerminalTypes

SolvedAtZero == << [type |-> "solved", step_count |-> 0] >>

\* C6: on an empty mapping the first and only event is solved with
\* step_count 0, the stack stays empty and the board is not touched, whatever
\* the board's size, blocked cells and empty cells.
C6_EmptyMultisetSolvedAtOnce ==
    DictIsEmpty(input) =>
        /\ events = (IF Started THEN SolvedAtZero ELSE << >>)
        /\ placed = << >>
        /\ step_count = 0
        /\ board = StartBoard

C6_Witness ==
    /\ DictIsEmpty(input)
    /\ gen = "finished"
    /\ events = SolvedAtZero
    /\ board.blocked_cells # {}
    /\ Cardinality(FreeCells) >= 3

\* C7: once the terminal event is out, or the generator is closed, a further
\* step request raises StopIteration instead of yielding an event and changes
\* neither the board, the stack, the remaining counts nor the events.
C7_ExhaustedRaisesAndChangesNothing ==
    [][(Terminated \/ gen = "closed") =>
          /\ result' \in {"StopIteration", "closed"}
          /\ UNCHANGED << board, placed, heap, remainingRef, frames,
                          step_count, events >>]_vars

\* a generator closed in mid-search has answered a step request
C7_Witness ==
    /\ gen = "closed"
    /\ result = "StopIteration"
    /\ LastIs("place")
    /\ Len(placed) >= 2

\* C8: the mapping the caller passed is never changed, while the solver's
\* own remaining mapping is.
C8_CallerMappingUntouched == Pieces = input

C8_Witness ==
    /\ Started
    /\ LastIs("solved")
    /\ Len(placed) >= 2
    /\ Remaining # Pieces

\* C9: at every event the remaining counts plus the stack records add up to
\* the input counts, in total and for each piece type.
C9_CountsConserved ==
    Started =>
        /\ DictTotal(Remaining) + Len(placed) = DictTotal(input)
        /\ \A p \in PieceCatalogue :
             DictGet(Remaining, p, 0) + Cardinality(RecordsOf(p))
                 = DictGet(input, p, 0)

C9_Witness ==
    /\ LastIs("remove")
    /\ Len(placed) >= 1
    /\ \E i \in 1..Len(events) : events[i].type = "remove" /\ i < Len(events)
    /\ Cardinality({placed[i].piece : i \in 1..Len(placed)} \cup DOMAIN Remaining.cnt) >= 2

\* remaining before and after a step of the generator
RemBefore == IF Started THEN Remaining ELSE Pieces
RemAfter == heap'[remainingRef']

Emits(t) == events' # events /\ events'[Len(events')].type = t

\* the counts move by exactly one: a place event takes one of the placed
\* piece, a remove event gives one back, to the count before the place
CountsMoveByOne ==
    /\ Emits("place") =>
         LET p == placed'[Len(placed')].piece
         IN /\ DictGet(RemAfter, p, 0) = DictGet(RemBefore, p, 0) - 1
            /\ \A q \in PieceCatalogue \ {p} :
                 DictGet(RemAfter, q, 0) = DictGet(RemBefore, q, 0)
    /\ Emits("remove") =>
         LET p == placed[Len(placed)].piece
         IN /\ DictGet(RemAfter, p, 0) = DictGet(RemBefore, p, 0) + 1
            /\ DictGet(RemAfter, p, 0) = frames'[Len(frames')].count
            /\ \A q \in PieceCatalogue \ {p} :
                 DictGet(RemAfter, q, 0) = DictGet(RemBefore, q, 0)

\* C10 as stated: each place event lowers the placed piece's count by exactly
\* one (the entry is removed at zero, so no entry of remaining is ever 0 or
\* below) and each remove event raises it by exactly one, back to its value
\* before the matching place.
C10_PlaceTakesOneNoEntryBelowOne ==
    [][/\ CountsMoveByOne
       /\ remainingRef' # 0 =>
            \A p \in DOMAIN RemAfter.cnt : RemAfter.cnt[p] >= 1]_vars

\* the part of C10 that holds for every input: the counts move by one
C10_CountsMoveByOne == [][CountsMoveByOne]_vars

(***************************************************************************)
(* GameBoard driven directly: construction, place_shape, remove_shape,     *)
(* clear and copy called in any order with any arguments.                  *)
(***************************************************************************)
MaxBoardCells == 4

\* the largest width and height __init__ accepts
MAX_SIDE == 50

\* no object: the constructor raised
NoBoard == [width |-> 0, height |-> 0, blocked_cells |-> {}, cells |-> << >>]

\* an __init__ that does not validate the blocked cells
Construct_any_blocked(width, height, blocked) ==
    IF ~(1 <= width /\ width <= MAX_SIDE) THEN [error |-> "ValueError", board |-> NoBoard]
    ELSE IF ~(1 <= height /\ height <= MAX_SIDE) THEN [error |-> "ValueError", board |-> NoBoard]
    ELSE [error |-> "none", board |-> GameBoard(width, height, blocked)]

\* GameBoard.__init__ with its validation
Construct(width, height, blocked) ==
    IF ~(1 <= width /\ width <= MAX_SIDE) THEN [error |-> "ValueError", board |-> NoBoard]
    ELSE IF ~(1 <= height /\ height <= MAX_SIDE) THEN [error |-> "ValueError", board |-> NoBoard]
    ELSE IF \E x \in blocked : ~(0 <= x[1] /\ x[1] < height /\ 0 <= x[2] /\ x[2] < width)
    THEN [error |-> "ValueError", board |-> NoBoard]
    ELSE [error |-> "none", board |-> GameBoard(width, height, blocked)]

\* the errors remove_shape can end with: its check loop stops at the first
\* cell that fails, in the iteration order of the frozenset, with IndexError
\* for a cell off the lists and ValueError for a cell with another content
RemoveErrors(b, shape, position) ==
    LET T == Translate(shape, position)
        bad == {x \in T : ~GridCellOk(b, x)}
        other == {x \in T : GridCellOk(b, x) /\ b.cells[GridCell(b, x)] # ShapeHash(shape)}
    IN IF bad = {} /\ other = {} THEN {"none"}
       ELSE (IF bad # {} THEN {"IndexError"} ELSE {}) \cup
            (IF other # {} THEN {"ValueError"} ELSE {})

\* a clear that empties the blocked cells too
clear_everything(b) == [b EXCEPT !.cells = [x \in DOMAIN b.cells |-> EMPTY]]

clear(b) ==
    [b EXCEPT !.cells = [x \in DOMAIN b.cells |->
                           IF b.cells[x] # BLOCKED THEN EMPTY ELSE b.cells[x]]]

copy(b) ==
    [Construct(b.width, b.height, b.blocked_cells).board EXCEPT !.cells = b.cells]

\* a get_occupied_cells that leaves the blocked cells out
get_occupied_cells_placed(b) ==
    {x \in DOMAIN b.cells : b.cells[x] # EMPTY /\ b.cells[x] # BLOCKED}

\* the queries
get_occupied_cells(b) == {x \in DOMAIN b.cells : b.cells[x] # EMPTY}
get_empty_cells(b) == {x \in DOMAIN b.cells : b.cells[x] = EMPTY}
get_blocked_cells(b) == b.blocked_cells
filled_area(b) == Cardinality({x \in DOMAIN b.cells : b.cells[x] # EMPTY})
empty_area(b) == Cardinality({x \in DOMAIN b.cells : b.cells[x] = EMPTY})

\* The arguments the callers try: sides 0, 1.., MAX_SIDE and MAX_SIDE + 1,
\* boards of at most MaxBoardCells cells or one cell wide or high, blocked
\* cells in and just off the board.
Sides == (0..MaxBoardCells) \cup {MAX_SIDE, MAX_SIDE + 1}

\* the subsets of S of at most k elements
RECURSIVE SmallSubsets(_, _)
SmallSubsets(S, k) ==
    IF k = 0 THEN {{}}
    ELSE LET prev == SmallSubsets(S, k - 1)
         IN prev \cup {X \cup {x} : X \in prev, x \in S}

BlockedChoices ==
    SmallSubsets((-1..MaxBoardCells) \X (-1..MaxBoardCells), MaxBlocked)

BuildArgs ==
    {a \in [width : Sides, height : Sides, blocked : BlockedChoices] :
        \/ a.width * a.height <= MaxBoardCells
        \/ a.width = 1 \/ a.height = 1
        \/ a.width = 0 \/ a.height = 0}

\* the shapes and positions the callers try
BoardShapes ==
    { {<<0, 0>>},
      {<<0, 0>>, <<0, 1>>},
      {<<0, 0>>, <<1, 0>>},
      {<<0, 1>>, <<1, 0>>, <<1, 1>>} }

\* positions on the board and one step off each side; the callers place and
\* remove on the boards of at most MaxBoardCells cells
BoardPositions == (-1..MaxBoardCells) \X (-1..MaxBoardCells)

Probed(b) ==
    /\ b # NoBoard
    /\ b.width * b.height <= MaxBoardCells

ProbePositions(b) == (-1..b.height) \X (-1..b.width)

BoardInit ==
    /\ built \in BuildArgs
    /\ board = Construct(built.width, built.height, built.blocked).board
    /\ live = {}
    /\ drawn = NoDrawing
    /\ config = NoConfig
    /\ data = NoData
    /\ twin = << >>
    /\ window = NoWindow
    /\ editor = NoEditor
    /\ puzzle_board = NoPuzzleBoard
    /\ input = EmptyDict
    /\ heap = [r \in 1..2 |-> EmptyDict]
    /\ piecesRef = 1
    /\ remainingRef = 0
    /\ placed = << >>
    /\ piece_types = << >>
    /\ frames = << >>
    /\ step_count = 0
    /\ gen = "created"
    /\ events = << >>
    /\ result = "none"

\* what a direct board call leaves alone
searchVars == << input, heap, piecesRef, remainingRef, placed, piece_types,
                 frames, step_count, gen, events, result, drawn,
                 config, data, twin, window, editor,
           puzzle_board >>

PlaceShape ==
    /\ Probed(board)
    /\ \E shape \in BoardShapes, position \in ProbePositions(board) :
       \E r \in {place_shape(board, shape, position)} :
          /\ board' = r.board
          /\ live' = IF r.raised THEN live ELSE live \cup {<< shape, position >>}
    /\ UNCHANGED << built, searchVars >>

RemoveShape ==
    /\ Probed(board)
    /\ \E shape \in BoardShapes, position \in ProbePositions(board) :
       \E r \in {remove_shape(board, shape, position)} :
          /\ board' = r.board
          /\ live' = IF r.raised THEN live ELSE live \ {<< shape, position >>}
    /\ UNCHANGED << built, searchVars >>

Clear ==
    /\ board # NoBoard
    /\ board' = clear(board)
    /\ live' = {}
    /\ UNCHANGED << built, searchVars >>

\* the caller goes on with the copy
Copy ==
    /\ board # NoBoard
    /\ board' = copy(board)
    /\ UNCHANGED << built, live, searchVars >>

BoardNext == PlaceShape \/ RemoveShape \/ Clear \/ Copy

BoardSpec == BoardInit /\ [][BoardNext]_vars

\* The same solver on boards that may already hold a shape when the search
\* starts.
UsedBoards ==
    LET Base == {b \in InputBoards : b.width * b.height <= MaxBoardCells}
        Shapes == UNION {OrientationSet(p) : p \in PieceCatalogue}
    IN Base \cup
       {place_shape(t[1], t[2], t[3]).board :
          t \in {u \in Base \X Shapes \X ((0..(MaxBoardCells - 1)) \X (0..(MaxBoardCells - 1))) :
                   can_place_shape(u[1], u[2], u[3])}}

UsedInit == StartOn(InputDicts, UsedBoards, FALSE)

UsedSpec == UsedInit /\ [][Next]_vars

(***************************************************************************)
(* Pieces: two shapes are drawn cell by cell on the piece grid and a       *)
(* PuzzlePiece is made of each.                                            *)
(***************************************************************************)
MaxDrawn == 4

DrawGrid == (0..2) \X (0..2)

\* equality and hash of pieces delegate to the canonical shape
piece_eq(p, q) == p.canonical_shape = q.canonical_shape

piece_hash(p) == ShapeHash(p.canonical_shape)

PieceInit ==
    /\ drawn = NoDrawing
    /\ config = NoConfig
    /\ data = NoData
    /\ twin = << >>
    /\ window = NoWindow
    /\ editor = NoEditor
    /\ puzzle_board = NoPuzzleBoard
    /\ built = [width |-> 1, height |-> 1, blocked |-> {}]
    /\ board = GameBoard(1, 1, {})
    /\ live = {}
    /\ input = EmptyDict
    /\ heap = [r \in 1..2 |-> EmptyDict]
    /\ piecesRef = 1
    /\ remainingRef = 0
    /\ placed = << >>
    /\ piece_types = << >>
    /\ frames = << >>
    /\ step_count = 0
    /\ gen = "created"
    /\ events = << >>
    /\ result = "none"

\* what drawing leaves alone
undrawnVars == << input, heap, piecesRef, remainingRef, board, placed,
                  piece_types, frames, step_count, gen, events, result,
                  built, live, config, data, twin, window, editor,
           puzzle_board >>

\* a cell of one of the two grids is filled
FillCell ==
    /\ \E i \in 1..2, cell \in DrawGrid :
         /\ Cardinality(drawn[i] \cup {cell}) <= MaxDrawn
         /\ drawn' = [drawn EXCEPT ![i] = drawn[i] \cup {cell}]
    /\ UNCHANGED undrawnVars

\* a cell of one of the two grids is erased
EraseCell ==
    /\ \E i \in 1..2, cell \in DrawGrid :
         drawn' = [drawn EXCEPT ![i] = drawn[i] \ {cell}]
    /\ UNCHANGED undrawnVars

PieceNext == FillCell \/ EraseCell

PieceSpec == PieceInit /\ [][PieceNext]_vars

(***************************************************************************)
(* PuzzleConfiguration (src/models/puzzle_config.py).  A configuration is  *)
(* a record [name, board_width, board_height, blocked_cells, pieces]; a    *)
(* name is its sequence of characters, pieces is a Python dict whose keys  *)
(* are pieces, a piece being identified with its canonical shape.  The     *)
(* timestamps are left out.                                                *)
(***************************************************************************)
MaxStored == 3
MaxEntries == 3

SetOf(list) == {list[i] : i \in DOMAIN list}

\* str.strip()
RECURSIVE StripLeft(_)
StripLeft(str) ==
    IF str # << >> /\ str[1] = " " THEN StripLeft(Tail(str)) ELSE str

RECURSIVE StripRight(_)
StripRight(str) ==
    IF str # << >> /\ str[Len(str)] = " "
    THEN StripRight(SubSeq(str, 1, Len(str) - 1)) ELSE str

strip(str) == StripRight(StripLeft(str))

Adjacent(a, b) ==
    \/ a[1] = b[1] /\ (a[2] - b[2]) \in {-1, 1}
    \/ a[2] = b[2] /\ (a[1] - b[1]) \in {-1, 1}

\* the cells of S joined to the cells of R by a chain of adjacent cells
RECURSIVE Reach(_, _)
Reach(S, R) ==
    LET more == {x \in S \ R : \E y \in R : Adjacent(x, y)}
    IN IF more = {} THEN R ELSE Reach(S, R \cup more)

\* validate_piece_shape(shape): the list of errors of the shape, empty for
\* a non-empty edge-connected set of cells
validate_piece_shape(shape) ==
    IF shape # {} /\ Reach(shape, {MinCell(shape)}) = shape
    THEN << >> ELSE << "not contiguous" >>

\* PuzzleConfiguration.__init__
PuzzleConfiguration(name, board_width, board_height, pieces, blocked_cells) ==
    IF name = << >> \/ strip(name) = << >>
    THEN [error |-> "ValueError", config |-> NoConfig]
    ELSE IF ~(1 <= board_width /\ board_width <= 50)
    THEN [error |-> "ValueError", config |-> NoConfig]
    ELSE IF ~(1 <= board_height /\ board_height <= 50)
    THEN [error |-> "ValueError", config |-> NoConfig]
    ELSE IF \E cell \in blocked_cells :
              ~(0 <= cell[1] /\ cell[1] < board_height
                /\ 0 <= cell[2] /\ cell[2] < board_width)
    THEN [error |-> "ValueError", config |-> NoConfig]
    ELSE [error |-> "none",
          config |-> [name |-> strip(name),
                      board_width |-> board_width,
                      board_height |-> board_height,
                      blocked_cells |-> blocked_cells,
                      pieces |-> pieces]]

\* an add_piece that overwrites the count of a piece it already holds
add_piece_overwriting(c, piece, count) ==
    IF validate_piece_shape(piece) # << >> THEN [raised |-> TRUE, config |-> c]
    ELSE [raised |-> FALSE,
          config |-> [c EXCEPT !.pieces = DictSet(c.pieces, piece, count)]]

add_piece(c, piece, count) ==
    IF validate_piece_shape(piece) # << >> THEN [raised |-> TRUE, config |-> c]
    ELSE IF DictHas(c.pieces, piece)
    THEN [raised |-> FALSE,
          config |-> [c EXCEPT !.pieces =
                         DictSet(c.pieces, piece, c.pieces.cnt[piece] + count)]]
    ELSE [raised |-> FALSE,
          config |-> [c EXCEPT !.pieces = DictSet(c.pieces, piece, count)]]

\* a remove_piece that keeps the entry of a piece whose count has reached 0
remove_piece_entry_kept(c, piece, count) ==
    IF ~DictHas(c.pieces, piece) THEN [raised |-> TRUE, config |-> c]
    ELSE IF c.pieces.cnt[piece] < count THEN [raised |-> TRUE, config |-> c]
    ELSE [raised |-> FALSE,
          config |-> [c EXCEPT !.pieces =
                         DictSet(c.pieces, piece, c.pieces.cnt[piece] - count)]]

remove_piece(c, piece, count) ==
    IF ~DictHas(c.pieces, piece) THEN [raised |-> TRUE, config |-> c]
    ELSE IF c.pieces.cnt[piece] < count THEN [raised |-> TRUE, config |-> c]
    ELSE IF c.pieces.cnt[piece] - count = 0
    THEN [raised |-> FALSE, config |-> [c EXCEPT !.pieces = DictDel(c.pieces, piece)]]
    ELSE [raised |-> FALSE,
          config |-> [c EXCEPT !.pieces =
                         DictSet(c.pieces, piece, c.pieces.cnt[piece] - count)]]

update_piece(c, piece, count) ==
    IF validate_piece_shape(piece) # << >> THEN [raised |-> TRUE, config |-> c]
    ELSE IF ~DictHas(c.pieces, piece) THEN [raised |-> TRUE, config |-> c]
    ELSE [raised |-> FALSE,
          config |-> [c EXCEPT !.pieces = DictSet(c.pieces, piece, count)]]

\* a to_dict that leaves the counts out
to_dict_without_counts(c) ==
    [name |-> c.name,
     board_width |-> c.board_width,
     board_height |-> c.board_height,
     blocked_cells |-> SortedCells(c.blocked_cells),
     pieces |-> [i \in 1..Len(c.pieces.keys) |->
                    [shape |-> SortedCells(c.pieces.keys[i])]]]

\* to_dict: sets become lists (any order of a set's elements gives the same
\* set back in from_dict; the lists are written sorted)
to_dict(c) ==
    [name |-> c.name,
     board_width |-> c.board_width,
     board_height |-> c.board_height,
     blocked_cells |-> SortedCells(c.blocked_cells),
     pieces |-> [i \in 1..Len(c.pieces.keys) |->
                    [shape |-> SortedCells(c.pieces.keys[i]),
                     count |-> c.pieces.cnt[c.pieces.keys[i]]]]]

\* the loop of from_dict over data["pieces"]
RECURSIVE AddEntries(_, _)
AddEntries(c, entries) ==
    IF entries = << >> THEN [raised |-> FALSE, config |-> c]
    ELSE LET piece_data == Head(entries)
         IN IF "shape" \notin DOMAIN piece_data
            THEN [raised |-> TRUE, config |-> NoConfig]
            ELSE LET piece == PuzzlePiece(SetOf(piece_data.shape)).canonical_shape
                     count == IF "count" \in DOMAIN piece_data
                              THEN piece_data.count ELSE 1
                     added == add_piece(c, piece, count)
                 IN IF added.raised THEN [raised |-> TRUE, config |-> NoConfig]
                    ELSE AddEntries(added.config, Tail(entries))

from_dict(d) ==
    LET blocked_cells == IF "blocked_cells" \in DOMAIN d
                         THEN SetOf(d.blocked_cells) ELSE {}
        made == PuzzleConfiguration(d.name, d.board_width, d.board_height,
                                    EmptyDict, blocked_cells)
    IN IF made.error # "none" THEN [raised |-> TRUE, config |-> NoConfig]
       ELSE AddEntries(made.config, d.pieces)

\* the configurations and calls tried
Gap == {<<0, 0>>, <<0, 2>>}

ConfigNames ==
    { << >>, << " " >>, << "P" >>, << " ", "P", " " >>, << "P", " ", "Q" >> }

ConfigSides == { << 3, 1 >>, << 2, 2 >>, << 0, 1 >>, << 1, 51 >> }

ConfigBlocked == { {}, {<<0, 0>>}, {<<1, 1>>} }

ConfigPieces ==
    { EmptyDict,
      DictSet(EmptyDict, CanonicalShape({<<0, 0>>}), 1),
      DictSet(EmptyDict, CanonicalShape(Gap), 1),
      DictSet(DictSet(EmptyDict, CanonicalShape({<<0, 0>>, <<1, 0>>}), 2),
              CanonicalShape({<<0, 0>>}), 1) }

EditPieces ==
    {CanonicalShape(S) : S \in { {<<0, 0>>}, {<<0, 0>>, <<1, 0>>}, Gap }}

CountArgs == (-1)..MaxCount

Stored(c) ==
    \A k \in DOMAIN c.pieces.cnt :
        -MaxStored <= c.pieces.cnt[k] /\ c.pieces.cnt[k] <= MaxStored

ConfigInit ==
    /\ config \in {PuzzleConfiguration(n, wh[1], wh[2], ps, bl).config :
                     n \in ConfigNames, wh \in ConfigSides,
                     ps \in ConfigPieces, bl \in ConfigBlocked}
    /\ data = NoData
    /\ twin = << >>
    /\ window = NoWindow
    /\ editor = NoEditor
    /\ puzzle_board = NoPuzzleBoard
    /\ drawn = NoDrawing
    /\ built = [width |-> 1, height |-> 1, blocked |-> {}]
    /\ board = GameBoard(1, 1, {})
    /\ live = {}
    /\ input = EmptyDict
    /\ heap = [r \in 1..2 |-> EmptyDict]
    /\ piecesRef = 1
    /\ remainingRef = 0
    /\ placed = << >>
    /\ piece_types = << >>
    /\ frames = << >>
    /\ step_count = 0
    /\ gen = "created"
    /\ events = << >>
    /\ result = "none"

\* what a call on the configuration leaves alone
unconfiguredVars == << input, heap, piecesRef, remainingRef, board, placed,
                       piece_types, frames, step_count, gen, events, result,
                       built, live, drawn, twin, window, editor,
           puzzle_board >>

AddPiece ==
    /\ config # NoConfig
    /\ \E piece \in EditPieces, count \in CountArgs :
       \E r \in {add_piece(config, piece, count)} :
          /\ Stored(r.config)
          /\ config' = r.config
    /\ UNCHANGED << data, unconfiguredVars >>

RemovePiece ==
    /\ config # NoConfig
    /\ \E piece \in EditPieces, count \in CountArgs :
       \E r \in {remove_piece(config, piece, count)} :
          /\ Stored(r.config)
          /\ config' = r.config
    /\ UNCHANGED << data, unconfiguredVars >>

UpdatePiece ==
    /\ config # NoConfig
    /\ \E piece \in EditPieces, count \in CountArgs :
       \E r \in {update_piece(config, piece, count)} :
          /\ Stored(r.config)
          /\ config' = r.config
    /\ UNCHANGED << data, unconfiguredVars >>

\* the configuration is saved and loaded again; the caller keeps the old
\* one when the load raises
SaveLoad ==
    /\ config # NoConfig
    /\ \E r \in {from_dict(to_dict(config))} :
          config' = IF r.raised THEN config ELSE r.config
    /\ UNCHANGED << data, unconfiguredVars >>

ConfigNext == AddPiece \/ RemovePiece \/ UpdatePiece \/ SaveLoad

ConfigSpec == ConfigInit /\ [][ConfigNext]_vars

\* A dictionary is written entry by entry and a configuration is built from
\* it with from_dict.
EntryShapes ==
    { << <<0, 0>> >>,
      << <<0, 0>>, <<0, 1>> >>,
      << <<1, 0>>, <<0, 0>> >> }

EntryCounts == {1, 2}

Entries ==
    {[shape |-> l] : l \in EntryShapes}
      \cup {[shape |-> l, count |-> n] : l \in EntryShapes, n \in EntryCounts}
      \cup {[count |-> 1]}

ImportInit ==
    /\ data \in { [name |-> << "P" >>, board_width |-> 3, board_height |-> 1,
                   pieces |-> << >>],
                  [name |-> << "P" >>, board_width |-> 3, board_height |-> 1,
                   blocked_cells |-> << <<0, 2>> >>, pieces |-> << >>] }
    /\ config = NoConfig
    /\ twin = << >>
    /\ window = NoWindow
    /\ editor = NoEditor
    /\ puzzle_board = NoPuzzleBoard
    /\ drawn = NoDrawing
    /\ built = [width |-> 1, height |-> 1, blocked |-> {}]
    /\ board = GameBoard(1, 1, {})
    /\ live = {}
    /\ input = EmptyDict
    /\ heap = [r \in 1..2 |-> EmptyDict]
    /\ piecesRef = 1
    /\ remainingRef = 0
    /\ placed = << >>
    /\ piece_types = << >>
    /\ frames = << >>
    /\ step_count = 0
    /\ gen = "created"
    /\ events = << >>
    /\ result = "none"

AppendEntry ==
    /\ Len(data.pieces) < MaxEntries
    /\ \E e \in Entries : data' = [data EXCEPT !.pieces = Append(@, e)]
    /\ UNCHANGED << config, unconfiguredVars >>

Import ==
    /\ \E r \in {from_dict(data)} :
          config' = IF r.raised THEN config ELSE r.config
    /\ UNCHANGED << data, unconfiguredVars >>

ImportNext == AppendEntry \/ Import

ImportSpec == ImportInit /\ [][ImportNext]_vars

(***************************************************************************)
(* VisualizationWindow: the solver generator driven by the Play/Pause,     *)
(* Step and Stop buttons, the timer, the speed slider and the close of the *)
(* window.  window.generator is the generator object: the run it will      *)
(* yield and the number of events it has yielded; window.searches counts   *)
(* the generators created.  window.event is the event the last handler     *)
(* handed to the board widget, window.late tells that the last handler     *)
(* called next() on a generator that had yielded its last event, and       *)
(* window.last and window.prev name the last two handlers.                 *)
(***************************************************************************)
MaxSearches == 2

SliderValues == {0, 100}

\* the configurations a window is opened on
WindowConfigs ==
    {PuzzleConfiguration(<< "P" >>, b.width, b.height, ps, b.blocked_cells).config :
       b \in {x \in InputBoards :
                x.width * x.height <= MaxBoardCells /\ x.blocked_cells = {}},
       ps \in {d \in InputDicts :
                 /\ Len(d.keys) \in 1..2
                 /\ \A p \in DOMAIN d.cnt : d.cnt[p] >= 1}}

get_board(c) == Construct(c.board_width, c.board_height, c.blocked_cells).board

\* __init__: no generator, the timer not started
VisualizationWindow ==
    [generator |-> NoGenerator, searches |-> 0, timer_active |-> FALSE,
     is_playing |-> FALSE,
     status |-> Label("Press Play to start solving...", 0), button |-> "Play",
     slider |-> 100, interval |-> 0, delay_ms |-> 100,
     event |-> NoEvent, late |-> FALSE, last |-> "init", prev |-> "init"]

\* a handler is entered: nothing handed to the widget yet
Entered(w, name) ==
    [w EXCEPT !.event = NoEvent, !.late = FALSE, !.prev = w.last, !.last = name]

\* the generator has yielded its terminal event: next() raises StopIteration
Ended(g) == g.yielded = Len(g.run)

create_solver(w, c) ==
    [w EXCEPT !.generator = [made |-> TRUE, run |-> RunOf(c.pieces, get_board(c)),
                             yielded |-> 0],
              !.searches = @ + 1]

\* a stop that leaves the timer running
on_stop_clicked_timer_on(w) ==
    [w EXCEPT !.is_playing = FALSE, !.generator = NoGenerator, !.button = "Play"]

on_stop_clicked(w) ==
    [w EXCEPT !.timer_active = FALSE, !.is_playing = FALSE,
              !.generator = NoGenerator, !.button = "Play"]

StepStatus(type) ==
    IF type = "attempt" THEN "Attempting placement..."
    ELSE IF type = "place" THEN "Piece placed"
    ELSE IF type = "remove" THEN "Backtracking..."
    ELSE "Unknown"

advance(w) ==
    IF ~w.generator.made THEN w
    ELSE IF Ended(w.generator) THEN on_stop_clicked([w EXCEPT !.late = TRUE])
    ELSE LET e == w.generator.run[w.generator.yielded + 1]
             w1 == [w EXCEPT !.generator.yielded = @ + 1, !.event = e]
         IN IF e.type = "solved"
            THEN on_stop_clicked(
                   [w1 EXCEPT !.status = Label("SOLUTION FOUND!", e.step_count)])
            ELSE IF e.type = "no_solution"
            THEN on_stop_clicked(
                   [w1 EXCEPT !.status =
                                Label("No solution exists for this puzzle.", 0)])
            ELSE [w1 EXCEPT !.status = Label(StepStatus(e.type), e.step_count)]

\* a Play that makes a generator whenever it is pressed
on_play_pause_clicked_anew(w, c) ==
    IF w.is_playing
    THEN [w EXCEPT !.is_playing = FALSE, !.button = "Play",
                   !.timer_active = FALSE, !.status = Label("Paused", 0)]
    ELSE LET w1 == create_solver(w, c)
             w2 == [w1 EXCEPT !.is_playing = TRUE, !.button = "Pause",
                              !.interval = w.slider, !.timer_active = TRUE]
             w3 == IF w2.generator.made THEN advance(w2) ELSE w2
         IN [w3 EXCEPT !.status = Label("Solving...", 0)]

on_play_pause_clicked(w, c) ==
    IF w.is_playing
    THEN [w EXCEPT !.is_playing = FALSE, !.button = "Play",
                   !.timer_active = FALSE, !.status = Label("Paused", 0)]
    ELSE LET w1 == IF ~w.generator.made THEN create_solver(w, c) ELSE w
             w2 == [w1 EXCEPT !.is_playing = TRUE, !.button = "Pause",
                              !.interval = w.slider, !.timer_active = TRUE]
             w3 == IF w2.generator.made THEN advance(w2) ELSE w2
         IN [w3 EXCEPT !.status = Label("Solving...", 0)]

on_step_clicked(w, c) ==
    LET w1 == IF ~w.generator.made THEN create_solver(w, c) ELSE w
    IN IF Ended(w1.generator)
       THEN [w1 EXCEPT !.late = TRUE, !.status = Label("Solver finished", 0),
                       !.button = "Play"]
       ELSE [w1 EXCEPT !.generator.yielded = @ + 1,
                       !.event = w1.generator.run[w1.generator.yielded + 1]]

Clamp(value) ==
    LET low == IF value < 1000 THEN value ELSE 1000
    IN IF low > 10 THEN low ELSE 10

\* setInterval leaves a stopped timer stopped and a running timer running
on_speed_changed(w, value) ==
    [w EXCEPT !.delay_ms = Clamp(value), !.interval = Clamp(value)]

closeEvent(w) == on_stop_clicked(w)

WindowInit ==
    /\ config \in WindowConfigs
    /\ twin = RunOf(config.pieces,
                    GameBoard(config.board_width, config.board_height,
                              config.blocked_cells))
    /\ window = VisualizationWindow
    /\ editor = NoEditor
    /\ puzzle_board = NoPuzzleBoard
    /\ data = NoData
    /\ drawn = NoDrawing
    /\ built = [width |-> 1, height |-> 1, blocked |-> {}]
    /\ board = GameBoard(1, 1, {})
    /\ live = {}
    /\ input = EmptyDict
    /\ heap = [r \in 1..2 |-> EmptyDict]
    /\ piecesRef = 1
    /\ remainingRef = 0
    /\ placed = << >>
    /\ piece_types = << >>
    /\ frames = << >>
    /\ step_count = 0
    /\ gen = "created"
    /\ events = << >>
    /\ result = "none"

windowlessVars == << input, heap, piecesRef, remainingRef, board, placed,
                     piece_types, frames, step_count, gen, events, result,
                     built, live, drawn, config, data, twin, editor,
                     puzzle_board >>

\* a handler that may create a generator creates at most MaxSearches of them
MayCreate == window.generator.made \/ window.searches < MaxSearches

PlayPauseClicked ==
    /\ window.is_playing \/ MayCreate
    /\ window' = on_play_pause_clicked(Entered(window, "play_pause"), config)
    /\ UNCHANGED windowlessVars

StepClicked ==
    /\ MayCreate
    /\ window' = on_step_clicked(Entered(window, "step"), config)
    /\ UNCHANGED windowlessVars

StopClicked ==
    /\ window' = on_stop_clicked(Entered(window, "stop"))
    /\ UNCHANGED windowlessVars

\* the timer fires while it is active
TimerTick ==
    /\ window.timer_active
    /\ window' = advance(Entered(window, "tick"))
    /\ UNCHANGED windowlessVars

SpeedChanged ==
    /\ \E value \in SliderValues \ {window.slider} :
          window' = on_speed_changed([Entered(window, "speed") EXCEPT !.slider = value],
                                     value)
    /\ UNCHANGED windowlessVars

CloseWindow ==
    /\ window' = closeEvent(Entered(window, "close"))
    /\ UNCHANGED windowlessVars

WindowNext == PlayPauseClicked \/ StepClicked \/ StopClicked \/ TimerTick \/ SpeedChanged \/ CloseWindow

WindowSpec == WindowInit /\ [][WindowNext]_vars

(***************************************************************************)
(* EditorWindow with its PieceTab and BoardTab.  config is the editor's    *)
(* _config.  editor.pieces, editor.selected and editor.filled are the      *)
(* piece tab's _pieces, _selected_piece (the empty set for None) and the   *)
(* filled cells of its drawing grid; editor.width and editor.height are    *)
(* the spinners of the board tab and editor.grid its grid widget.          *)
(* editor.loaded is the configuration the last handler read from a file.   *)
(***************************************************************************)
\* the cells a user draws a piece on, the sides the spinners are set to and
\* the cells a user blocks or frees
DrawCells == { <<0, 0>>, <<0, 1>> }

SideValues == {2, 5}

BlockCells == { <<1, 1>>, <<0, 4>> }

NewPuzzleName == << "N", "e", "w", " ", "P", "u", "z", "z", "l", "e" >>

\* what load_puzzle returns for the files tried
LoadedConfigs ==
    {r.config : r \in {x \in {from_dict(d) :
        d \in { [name |-> << "P" >>, board_width |-> 2, board_height |-> 2,
                 blocked_cells |-> << <<1, 1>> >>,
                 pieces |-> << [shape |-> << <<0, 0>>, <<0, 1>> >>, count |-> 1] >>],
                [name |-> << "Q" >>, board_width |-> 5, board_height |-> 5,
                 blocked_cells |-> << <<0, 0>> >>, pieces |-> << >>],
                [name |-> << "R" >>, board_width |-> 5, board_height |-> 2,
                 pieces |-> << [shape |-> << <<0, 0>> >>, count |-> 2] >>] }} :
                       ~x.raised}}

\* EditorWindow.__init__, PieceTab.__init__ and BoardTab.__init__
EditorWindow ==
    [editor |-> [pieces |-> EmptyDict, selected |-> {}, filled |-> {},
                 width |-> 5, height |-> 5,
                 grid |-> [width |-> 5, height |-> 5, blocked |-> {}],
                 loaded |-> NoConfig],
     config |-> PuzzleConfiguration(NewPuzzleName, 5, 5, EmptyDict, {}).config]

\* a handler of the editor is entered
Begun(e) == [e EXCEPT !.loaded = NoConfig]

\* PieceTab._on_piece_selection_changed for the row of piece, {} for no row
on_piece_selection_changed(e, piece) ==
    [e EXCEPT !.selected = piece, !.filled = piece]

on_piece_added(c, piece) ==
    LET r == add_piece(c, piece, 1) IN IF r.raised THEN c ELSE r.config

on_piece_deleted(c, piece) ==
    IF DictHas(c.pieces, piece)
    THEN LET r == remove_piece(c, piece, 1) IN IF r.raised THEN c ELSE r.config
    ELSE c

\* PieceTab._on_add_piece, with the callback into the editor
on_add_piece(e, c) ==
    LET shape == IF e.filled = {} THEN { <<0, 0>> } ELSE e.filled
        new_piece == CanonicalShape(shape)
        e1 == [e EXCEPT !.pieces = DictSet(@, new_piece,
                                           DictGet(e.pieces, new_piece, 0) + 1)]
    IN [editor |-> on_piece_selection_changed(e1, new_piece),
        config |-> on_piece_added(c, new_piece)]

on_piece_increment(e, c, piece) ==
    IF DictHas(e.pieces, piece)
    THEN [editor |-> on_piece_selection_changed(
                       [e EXCEPT !.pieces = DictSet(@, piece, e.pieces.cnt[piece] + 1)],
                       piece),
          config |-> c]
    ELSE [editor |-> e, config |-> c]

on_piece_decrement(e, c, piece) ==
    IF ~DictHas(e.pieces, piece) THEN [editor |-> e, config |-> c]
    ELSE IF e.pieces.cnt[piece] > 1
    THEN [editor |-> on_piece_selection_changed(
                       [e EXCEPT !.pieces = DictSet(@, piece, e.pieces.cnt[piece] - 1)],
                       piece),
          config |-> c]
    ELSE [editor |-> [e EXCEPT !.pieces = DictDel(@, piece), !.selected = {},
                               !.filled = {}],
          config |-> c]

on_delete_piece(e, c) ==
    IF e.selected = {} THEN [editor |-> e, config |-> c]
    ELSE LET p == e.selected
             left == IF ~DictHas(e.pieces, p) THEN e.pieces
                     ELSE IF e.pieces.cnt[p] > 1
                     THEN DictSet(e.pieces, p, e.pieces.cnt[p] - 1)
                     ELSE DictDel(e.pieces, p)
         IN [editor |-> [e EXCEPT !.pieces = left, !.selected = {}, !.filled = {}],
             config |-> on_piece_deleted(c, p)]

\* PieceTab._on_clear_shape; kept tells whether the list keeps its selection
\* when it is filled again
on_clear_shape(e, c, kept) ==
    IF e.selected = {} THEN [editor |-> [e EXCEPT !.filled = {}], config |-> c]
    ELSE IF ~DictHas(e.pieces, e.selected)
    THEN [editor |-> [e EXCEPT !.filled = {}], config |-> c]
    ELSE LET count == e.pieces.cnt[e.selected]
             new_piece == CanonicalShape({ <<0, 0>> })
         IN [editor |-> [e EXCEPT !.filled = {},
                                  !.pieces = DictSet(DictDel(@, e.selected),
                                                     new_piece, count),
                                  !.selected = IF kept THEN new_piece ELSE {}],
             config |-> c]

ClampSide(v) ==
    LET low == IF v < 50 THEN v ELSE 50
    IN IF low > 1 THEN low ELSE 1

\* BoardGridWidget.set_dimensions
set_dimensions(g, width, height) ==
    [width |-> ClampSide(width), height |-> ClampSide(height),
     blocked |-> {x \in g.blocked :
                    /\ 0 <= x[1] /\ x[1] < ClampSide(height)
                    /\ 0 <= x[2] /\ x[2] < ClampSide(width)}]

\* a configuration built anew; an exception leaves the old one
Rebuilt(c, width, height, blocked) ==
    LET r == PuzzleConfiguration(c.name, width, height, c.pieces, blocked)
    IN IF r.error # "none" THEN c ELSE r.config

\* BoardTab._on_dimension_changed and EditorWindow._on_board_dimensions_changed
on_dimension_changed(e, c) ==
    LET g == set_dimensions(e.grid, e.width, e.height)
    IN [editor |-> [e EXCEPT !.grid = g],
        config |-> Rebuilt(c, e.width, e.height, g.blocked)]

\* QSpinBox.setValue on the width and on the height spinner
SetWidth(e, c, v) ==
    IF v = e.width THEN [editor |-> e, config |-> c]
    ELSE on_dimension_changed([e EXCEPT !.width = v], c)

SetHeight(e, c, v) ==
    IF v = e.height THEN [editor |-> e, config |-> c]
    ELSE on_dimension_changed([e EXCEPT !.height = v], c)

\* BoardGridWidget._toggle_cell_at_position and the two _on_blocked_cells_changed
toggle_cell(e, c, cell, blocking) ==
    LET cells == IF blocking THEN e.grid.blocked \cup {cell}
                 ELSE e.grid.blocked \ {cell}
    IN [editor |-> [e EXCEPT !.grid.blocked = cells],
        config |-> Rebuilt(c, c.board_width, c.board_height, cells)]

\* EditorWindow._load_puzzle_from_file with _update_board
load_puzzle_from_file(e, c, loaded_config) ==
    LET s1 == SetWidth(e, loaded_config, loaded_config.board_width)
        s2 == SetHeight(s1.editor, s1.config, loaded_config.board_height)
    IN [editor |-> [s2.editor EXCEPT !.grid.blocked = s2.config.blocked_cells,
                                     !.pieces = s2.config.pieces,
                                     !.selected = {}, !.filled = {},
                                     !.loaded = loaded_config],
        config |-> s2.config]

EditorInit ==
    /\ editor = EditorWindow.editor
    /\ puzzle_board = NoPuzzleBoard
    /\ config = EditorWindow.config
    /\ window = NoWindow
    /\ twin = << >>
    /\ data = NoData
    /\ drawn = NoDrawing
    /\ built = [width |-> 1, height |-> 1, blocked |-> {}]
    /\ board = GameBoard(1, 1, {})
    /\ live = {}
    /\ input = EmptyDict
    /\ heap = [r \in 1..2 |-> EmptyDict]
    /\ piecesRef = 1
    /\ remainingRef = 0
    /\ placed = << >>
    /\ piece_types = << >>
    /\ frames = << >>
    /\ step_count = 0
    /\ gen = "created"
    /\ events = << >>
    /\ result = "none"

editVars == << input, heap, piecesRef, remainingRef, board, placed,
               piece_types, frames, step_count, gen, events, result,
               built, live, drawn, data, twin, window, puzzle_board >>

\* the editor and its configuration after a handler
Becomes(r) == editor' = r.editor /\ config' = r.config

\* the counts of the piece tab and of the configuration stay within MaxCount
TabStored(r) ==
    /\ \A p \in DOMAIN r.editor.pieces.cnt : r.editor.pieces.cnt[p] <= MaxCount
    /\ \A p \in DOMAIN r.config.pieces.cnt : r.config.pieces.cnt[p] <= MaxCount

\* a cell of the drawing grid is filled or cleared with the mouse
FillShape ==
    /\ \E cell \in DrawCells, filling \in BOOLEAN :
          Becomes([editor |-> [Begun(editor) EXCEPT
                                 !.filled = IF filling THEN @ \cup {cell}
                                            ELSE @ \ {cell}],
                   config |-> config])
    /\ UNCHANGED editVars

\* a row of the piece list is selected, or none
SelectPiece ==
    /\ \E piece \in (DOMAIN editor.pieces.cnt) \cup { {} } :
          Becomes([editor |-> on_piece_selection_changed(Begun(editor), piece),
                   config |-> config])
    /\ UNCHANGED editVars

AddPieceClicked ==
    /\ \E r \in {on_add_piece(Begun(editor), config)} :
          TabStored(r) /\ Becomes(r)
    /\ UNCHANGED editVars

IncrementClicked ==
    /\ \E piece \in DOMAIN editor.pieces.cnt :
          \E r \in {on_piece_increment(Begun(editor), config, piece)} :
              TabStored(r) /\ Becomes(r)
    /\ UNCHANGED editVars

DecrementClicked ==
    /\ \E piece \in DOMAIN editor.pieces.cnt :
          Becomes(on_piece_decrement(Begun(editor), config, piece))
    /\ UNCHANGED editVars

DeletePieceClicked ==
    /\ Becomes(on_delete_piece(Begun(editor), config))
    /\ UNCHANGED editVars

ClearShapeClicked ==
    /\ \E kept \in BOOLEAN :
          Becomes(on_clear_shape(Begun(editor), config, kept))
    /\ UNCHANGED editVars

WidthChanged ==
    /\ \E v \in SideValues \ {editor.width} :
          Becomes(SetWidth(Begun(editor), config, v))
    /\ UNCHANGED editVars

HeightChanged ==
    /\ \E v \in SideValues \ {editor.height} :
          Becomes(SetHeight(Begun(editor), config, v))
    /\ UNCHANGED editVars

BlockedToggled ==
    /\ \E cell \in BlockCells \cap CellsOf(editor.grid.width, editor.grid.height),
          blocking \in BOOLEAN :
          Becomes(toggle_cell(Begun(editor), config, cell, blocking))
    /\ UNCHANGED editVars

LoadPuzzle ==
    /\ \E loaded_config \in LoadedConfigs :
          Becomes(load_puzzle_from_file(Begun(editor), config, loaded_config))
    /\ UNCHANGED editVars

EditorNext ==
    \/ FillShape \/ SelectPiece \/ AddPieceClicked \/ IncrementClicked
    \/ DecrementClicked \/ DeletePieceClicked \/ ClearShapeClicked
    \/ WidthChanged \/ HeightChanged \/ BlockedToggled \/ LoadPuzzle

EditorSpec == EditorInit /\ [][EditorNext]_vars

(***************************************************************************)
(* PuzzleBoard (polyomino_jigsaw_solver): cells are (x, y), a              *)
(* transformation is a list of cells.  puzzle_board.initial holds the      *)
(* cells the board was made with and puzzle_board.raised the exception the *)
(* last call ended with.                                                   *)
(***************************************************************************)
MaxSide == 2

MaxPlaced == 3

\* the transformations, rows and columns the calls are made with
Transformations ==
    { << >>,
      << <<0, 0>> >>,
      << <<0, 0>>, <<1, 0>> >>,
      << <<1, 0>>, <<0, 0>> >>,
      << <<1, 0>>, <<0, 1>>, <<1, 1>> >> }

CallPositions == (-1)..(MaxSide - 1)

\* min over a non-empty set of integers
Least(S) == CHOOSE m \in S : \A n \in S : m <= n

\* the board cells of a non-empty transformation whose leftmost cell of the
\* first row is put at (row, col), in the order of the list
BoardCellsOf(transformation, row, col) ==
    LET min_y == Least({transformation[i][2] : i \in DOMAIN transformation})
        min_x == Least({transformation[i][1] :
                          i \in {j \in DOMAIN transformation :
                                   transformation[j][2] = min_y}})
    IN [i \in DOMAIN transformation |->
          << transformation[i][1] + (col - min_x),
             transformation[i][2] + (row - min_y) >>]

check_piece(b, transformation, row, col) ==
    IF transformation = << >> THEN FALSE
    ELSE \A cell \in SetOf(BoardCellsOf(transformation, row, col)) :
            /\ 0 <= cell[1] /\ cell[1] < b.width
            /\ 0 <= cell[2] /\ cell[2] < b.height
            /\ cell \notin b.filled_cells

insert_piece(b, transformation, row, col) ==
    IF transformation = << >> THEN [b EXCEPT !.raised = "PiecePlacementError"]
    ELSE IF ~check_piece(b, transformation, row, col)
    THEN [b EXCEPT !.raised = "PiecePlacementError"]
    ELSE [b EXCEPT !.filled_cells = @ \cup SetOf(BoardCellsOf(transformation, row, col)),
                   !.placed_pieces = Append(@, << transformation, row, col >>),
                   !.raised = "none"]

\* list.remove: the first equal element is taken out
RECURSIVE WithoutFirst(_, _)
WithoutFirst(list, x) ==
    IF list = << >> THEN << >>
    ELSE IF Head(list) = x THEN Tail(list)
    ELSE << Head(list) >> \o WithoutFirst(Tail(list), x)

\* PuzzleBoard.remove_piece
take_piece(b, transformation, row, col) ==
    IF transformation = << >> THEN [b EXCEPT !.raised = "PieceRemovalError"]
    ELSE LET piece_cells == SetOf(BoardCellsOf(transformation, row, col))
         IN IF \E cell \in piece_cells : cell \notin b.filled_cells
            THEN [b EXCEPT !.raised = "PieceRemovalError"]
            ELSE IF << transformation, row, col >> \notin SetOf(b.placed_pieces)
            THEN [b EXCEPT !.filled_cells = @ \ piece_cells,
                           !.raised = "ValueError"]
            ELSE [b EXCEPT !.filled_cells = @ \ piece_cells,
                           !.placed_pieces =
                              WithoutFirst(@, << transformation, row, col >>),
                           !.raised = "none"]

\* PuzzleBoard(width, height, filled_cells)
PuzzleBoard(width, height, filled_cells) ==
    [width |-> width, height |-> height, filled_cells |-> filled_cells,
     placed_pieces |-> << >>, initial |-> filled_cells, raised |-> "none"]

PuzzleInit ==
    /\ puzzle_board \in
          {PuzzleBoard(a[1], a[2], a[3]) :
             a \in {t \in (1..MaxSide) \X (1..MaxSide)
                            \X SUBSET ((0..(MaxSide - 1)) \X (0..(MaxSide - 1))) :
                      /\ Cardinality(t[3]) <= 1
                      /\ \A x \in t[3] : x[1] < t[1] /\ x[2] < t[2]}}
    /\ editor = NoEditor
    /\ config = NoConfig
    /\ window = NoWindow
    /\ twin = << >>
    /\ data = NoData
    /\ drawn = NoDrawing
    /\ built = [width |-> 1, height |-> 1, blocked |-> {}]
    /\ board = GameBoard(1, 1, {})
    /\ live = {}
    /\ input = EmptyDict
    /\ heap = [r \in 1..2 |-> EmptyDict]
    /\ piecesRef = 1
    /\ remainingRef = 0
    /\ placed = << >>
    /\ piece_types = << >>
    /\ frames = << >>
    /\ step_count = 0
    /\ gen = "created"
    /\ events = << >>
    /\ result = "none"

boardlessVars == << input, heap, piecesRef, remainingRef, board, placed,
                    piece_types, frames, step_count, gen, events, result,
                    built, live, drawn, config, data, twin, window, editor >>

InsertPiece ==
    /\ Len(puzzle_board.placed_pieces) < MaxPlaced
    /\ \E transformation \in Transformations, row \in CallPositions,
          col \in CallPositions :
          puzzle_board' = insert_piece(puzzle_board, transformation, row, col)
    /\ UNCHANGED boardlessVars

TakePieceOff ==
    /\ \E transformation \in Transformations, row \in CallPositions,
          col \in CallPositions :
          puzzle_board' = take_piece(puzzle_board, transformation, row, col)
    /\ UNCHANGED boardlessVars

PuzzleNext == InsertPiece \/ TakePieceOff

PuzzleSpec == PuzzleInit /\ [][PuzzleNext]_vars

(***************************************************************************)
(* Properties of the GameBoard.                                            *)
(***************************************************************************)
InBounds(b, x) == 0 <= x[1] /\ x[1] < b.height /\ 0 <= x[2] /\ x[2] < b.width

\* the content of the cells of a placement, as get_piece_at reports it
TagsOf(b, shape, position) ==
    {get_piece_at(b, x) : x \in {y \in Translate(shape, position) : InBounds(b, y)}}

\* C11: can_place_shape(shape, origin) is true iff every translated cell of
\* the shape is in bounds, is not blocked and is not occupied by a placed
\* shape, that is, is one of the cells the board reports as empty.
C11_CanPlaceIffAllCellsFree ==
    Probed(board) =>
        \A shape \in BoardShapes, position \in ProbePositions(board) :
            can_place_shape(board, shape, position) <=>
                \A x \in Translate(shape, position) :
                    /\ InBounds(board, x)
                    /\ x \notin get_blocked_cells(board)
                    /\ x \notin get_occupied_cells(board)

\* a board with a blocked cell and a placed shape on which one shape fits and
\* another one is refused only for the occupied cell it would cover
C11_Witness ==
    /\ Probed(board)
    /\ board.blocked_cells # {}
    /\ live # {}
    /\ \E shape \in BoardShapes, position \in ProbePositions(board) :
         can_place_shape(board, shape, position)
    /\ \E shape \in BoardShapes, position \in ProbePositions(board) :
         /\ ~can_place_shape(board, shape, position)
         /\ \A x \in Translate(shape, position) :
              InBounds(board, x) /\ x \notin board.blocked_cells

\* C12: place_shape raises exactly when can_place_shape is false; a failing
\* place_shape leaves every cell as it was, a successful one changes only the
\* translated cells of the shape, which then carry its tag.
C12_PlaceFailsIffCannotPlace ==
    Probed(board) =>
        \A shape \in BoardShapes, position \in ProbePositions(board) :
            LET r == place_shape(board, shape, position)
                T == Translate(shape, position)
            IN /\ r.raised <=> ~can_place_shape(board, shape, position)
               /\ r.raised => r.board = board
               /\ ~r.raised =>
                    /\ T \subseteq DOMAIN board.cells
                    /\ \A x \in (DOMAIN board.cells) \ T :
                         r.board.cells[x] = board.cells[x]
                    /\ \A x \in T : r.board.cells[x] \notin {EMPTY, BLOCKED}
                    /\ r.board.blocked_cells = board.blocked_cells
                    /\ r.board.width = board.width
                    /\ r.board.height = board.height

\* a shape that fits in part only: some of its cells are free, another one is
\* occupied, on a board that takes a further shape
C12_Witness ==
    /\ Probed(board)
    /\ live # {}
    /\ \E shape \in BoardShapes, position \in ProbePositions(board) :
         /\ place_shape(board, shape, position).raised
         /\ \E x \in Translate(shape, position) :
              InBounds(board, x) /\ board.cells[x] = EMPTY
    /\ \E shape \in BoardShapes, position \in ProbePositions(board) :
         ~place_shape(board, shape, position).raised

\* C13 as stated: two distinct placements on the board, also of the same
\* shape at different origins, never carry the same occupant tag.
C13_TagsUniquePerPlacement ==
    \A p, q \in live :
        p # q => TagsOf(board, p[1], p[2]) \cap TagsOf(board, q[1], q[2]) = {}

\* C14 as stated: remove_shape(shape, origin) succeeds only for a pair that
\* was placed and not removed since; for any other pair it fails and leaves
\* the grid unchanged.  (Whichever error it fails with: the claim names the
\* removal error, ValueError, see C14_RemovalErrorOnly.)
C14_RemoveOnlyWhatWasPlaced ==
    Probed(board) =>
        \A shape \in BoardShapes, position \in ProbePositions(board) :
            << shape, position >> \notin live =>
                /\ remove_shape(board, shape, position).raised
                /\ remove_shape(board, shape, position).board = board

\* C14, the error: a failing remove_shape fails with ValueError
C14_RemovalErrorOnly ==
    Probed(board) =>
        \A shape \in BoardShapes, position \in ProbePositions(board) :
            RemoveErrors(board, shape, position) \subseteq {"none", "ValueError"}

\* C14, the part that holds: a failing remove_shape leaves the grid unchanged,
\* and remove_shape fails exactly when its check loop meets an error
C14_FailingRemoveChangesNothing ==
    Probed(board) =>
        \A shape \in BoardShapes, position \in ProbePositions(board) :
            /\ remove_shape(board, shape, position).raised =>
                  remove_shape(board, shape, position).board = board
            /\ remove_shape(board, shape, position).raised <=>
                  RemoveErrors(board, shape, position) # {"none"}

\* C15: for every reachable board and every pair that can be placed,
\* place_shape followed by remove_shape of the same pair succeeds and leaves
\* the grid equal cell for cell to what it was before the place.
C15_PlaceThenRemoveRestores ==
    Probed(board) =>
        \A shape \in BoardShapes, position \in ProbePositions(board) :
            can_place_shape(board, shape, position) =>
                LET there == place_shape(board, shape, position).board
                    back == remove_shape(there, shape, position)
                IN ~back.raised /\ back.board = board

\* a pair that can be placed next to a placement of the same shape, on a
\* board with a blocked cell
C15_Witness ==
    /\ Probed(board)
    /\ board.blocked_cells # {}
    /\ \E shape \in BoardShapes, position \in ProbePositions(board) :
         /\ can_place_shape(board, shape, position)
         /\ \E p \in live : p[1] = shape /\ EMPTY \notin TagsOf(board, p[1], p[2])

\* C16: after any sequence of place_shape, remove_shape, clear and copy calls,
\* successful or failing, the blocked-cell set is the one given at
\* construction and every blocked cell holds the blocked marker.
C16_BlockedCellsStay ==
    board # NoBoard =>
        /\ get_blocked_cells(board) = built.blocked
        /\ \A x \in built.blocked : get_piece_at(board, x) = BLOCKED
        /\ get_blocked_cells(clear(board)) = built.blocked
        /\ get_blocked_cells(copy(board)) = built.blocked
        /\ \A x \in built.blocked :
             get_piece_at(clear(board), x) = BLOCKED /\ get_piece_at(copy(board), x) = BLOCKED

\* a board with a blocked cell after placements and a removal that emptied a
\* cell of a placement still counted as placed
C16_Witness ==
    /\ Probed(board)
    /\ built.blocked # {}
    /\ \E p \in live : EMPTY \in TagsOf(board, p[1], p[2])
    /\ \E p \in live : EMPTY \notin TagsOf(board, p[1], p[2])

ValidArgs(a) ==
    /\ a.width \in 1..50
    /\ a.height \in 1..50
    /\ \A x \in a.blocked :
         x[1] \in 0..(a.height - 1) /\ x[2] \in 0..(a.width - 1)

C18_ConstructorValidates ==
    LET c == Construct(built.width, built.height, built.blocked)
    IN /\ c.error # "none" <=> ~ValidArgs(built)
       /\ c.error # "none" => c.board = NoBoard /\ board = NoBoard
       /\ c.error = "none" =>
            /\ c.board.width = built.width /\ c.board.height = built.height
            /\ c.board.blocked_cells = built.blocked
            /\ DOMAIN c.board.cells = (0..(built.height - 1)) \X (0..(built.width - 1))
            /\ \A x \in DOMAIN c.board.cells :
                 c.board.cells[x] = IF x \in built.blocked THEN BLOCKED ELSE EMPTY
            /\ board # NoBoard
       /\ board # NoBoard =>
            /\ ValidArgs([width |-> board.width, height |-> board.height,
                          blocked |-> board.blocked_cells])
            /\ ValidArgs(built)

\* a constructor call refused for its blocked cell alone
C18_Witness ==
    /\ board = NoBoard
    /\ built.width = MAX_SIDE
    /\ built.height = 1
    /\ built.blocked # {}

(***************************************************************************)
(* Properties of pieces.  The symmetries of the square are generated by    *)
(* the quarter turn and one mirror image, independently of the list of     *)
(* transforms the orientation set is built from.                           *)
(***************************************************************************)
Rot90(cell) == << cell[2], -cell[1] >>

Mirror(cell) == << cell[1], -cell[2] >>

RECURSIVE Turned(_, _)
Turned(S, n) == IF n = 0 THEN S ELSE Turned({Rot90(x) : x \in S}, n - 1)

SquareImages(S) ==
    {Turned(S, n) : n \in 0..3} \cup {Turned({Mirror(x) : x \in S}, n) : n \in 0..3}

\* B is an image of A under a symmetry of the square followed by a translation
Congruent(A, B) ==
    \E I \in SquareImages(A) :
        \E a \in {MinCell(I)}, b \in B :
            Translate(I, << b[1] - a[1], b[2] - a[2] >>) = B

BothDrawn == drawn[1] # {} /\ drawn[2] # {}

\* C19: the pieces made of two non-empty cell sets are equal, and have the
\* same hash, exactly when one cell set is the image of the other under one
\* of the 8 symmetries of the square followed by a translation; a set holding
\* both pieces then has one member, and two otherwise.
C19_EqualIffCongruent ==
    BothDrawn =>
        LET p == PuzzlePiece(drawn[1])
            q == PuzzlePiece(drawn[2])
            related == Congruent(drawn[1], drawn[2])
        IN /\ piece_eq(p, q) <=> related
           /\ piece_hash(p) = piece_hash(q) <=> related
           /\ Cardinality({p, q}) = IF related THEN 1 ELSE 2

\* two drawings of a piece without any symmetry, one the mirror image of the
\* other and neither a translation or a rotation of the other
C19_Witness ==
    /\ BothDrawn
    /\ Cardinality(OrientationSet(drawn[1])) = 8
    /\ piece_eq(PuzzlePiece(drawn[1]), PuzzlePiece(drawn[2]))
    /\ \A n \in 0..3 : Normalize(Turned(drawn[1], n)) # Normalize(drawn[2])

\* C20: the orientation set of a non-empty cell set has 1, 2, 4 or 8 members,
\* every orientation has as many cells as the cell set and has minimum row 0
\* and minimum column 0, and the canonical shape is one of the orientations.
C20_OrientationSetShape ==
    \A i \in 1..2 :
        drawn[i] # {} =>
            LET p == PuzzlePiece(drawn[i])
            IN /\ Cardinality(p.orientations) \in {1, 2, 4, 8}
               /\ \A o \in p.orientations :
                    /\ Cardinality(o) = Cardinality(drawn[i])
                    /\ \A x \in o : x[1] >= 0 /\ x[2] >= 0
                    /\ \E x \in o : x[1] = 0
                    /\ \E x \in o : x[2] = 0
               /\ p.canonical_shape \in p.orientations

\* a drawing with 8 orientations next to one with 4, both drawn away from
\* the corner of the grid
C20_Witness ==
    /\ BothDrawn
    /\ Cardinality(OrientationSet(drawn[1])) = 8
    /\ Cardinality(OrientationSet(drawn[2])) = 4
    /\ \A i \in 1..2 : \A x \in drawn[i] : x[2] >= 1

\* s comes before t, or is t, in lexicographic order: at the first place
\* where they differ s has the smaller cell (s and t of one length)
LexLeq(s, t) ==
    \/ s = t
    \/ \E i \in 1..Len(s) :
         /\ \A j \in 1..(i - 1) : s[j] = t[j]
         /\ CellLess(s[i], t[i])

\* C21: the canonical shape of a piece is one of its orientations and no
\* orientation, taken as its sorted sequence of cells, comes before it in
\* lexicographic order; a piece made of any orientation of the piece, the
\* canonical one included, has the same canonical shape.  (Stated for every
\* first drawing, with the second one absent or an orientation of it.)
C21_CanonicalIsSmallestOrientation ==
    (/\ drawn[1] # {}
     /\ \/ drawn[2] = {}
        \/ /\ Cardinality(drawn[2]) = Cardinality(drawn[1])
           /\ drawn[2] \in OrientationSet(drawn[1])) =>
        \E p \in {PuzzlePiece(drawn[1])} :
        \E c \in {p.canonical_shape}, sc \in {SortedCells(p.canonical_shape)} :
           /\ c \in p.orientations
           /\ \A o \in p.orientations : LexLeq(sc, SortedCells(o))
           /\ drawn[2] \in p.orientations =>
                PuzzlePiece(drawn[2]).canonical_shape = c

\* the L-tetromino of test_load_puzzle_from_valid_file with the canonical
\* shape the test expects, and a third orientation of it as second drawing
C21_Witness ==
    /\ drawn[1] = {<<0, 0>>, <<1, 0>>, <<1, 1>>, <<1, 2>>}
    /\ PuzzlePiece(drawn[1]).canonical_shape = {<<0, 0>>, <<0, 1>>, <<0, 2>>, <<1, 0>>}
    /\ drawn[2] \in PuzzlePiece(drawn[1]).orientations
    /\ drawn[2] # drawn[1]
    /\ drawn[2] # PuzzlePiece(drawn[1]).canonical_shape

(***************************************************************************)
(* Properties of PuzzleConfiguration.                                      *)
(***************************************************************************)
EntryPiece(e) == CanonicalShape(SetOf(e.shape))

EntryCount(e) == IF "count" \in DOMAIN e THEN e.count ELSE 1

RECURSIVE SumEntries(_, _)
SumEntries(entries, I) ==
    IF I = {} THEN 0
    ELSE LET i == CHOOSE i \in I : TRUE
         IN EntryCount(entries[i]) + SumEntries(entries, I \ {i})

Reversed(list) == [i \in 1..Len(list) |-> list[Len(list) + 1 - i]]

Loadable(d) == \A i \in DOMAIN d.pieces : "shape" \in DOMAIN d.pieces[i]

\* C22: a configuration built by from_dict from a list of piece entries has
\* one key per distinct piece of the list, each with the sum of the counts of
\* the entries of that piece (1 for an entry without count), and the same
\* mapping is built from the list in reverse order.
C22_FromDictMergesEqualPieces ==
    Loadable(data) =>
        LET r == from_dict(data)
            entries == data.pieces
            ps == r.config.pieces
        IN /\ ~r.raised
           /\ DOMAIN ps.cnt = {EntryPiece(entries[i]) : i \in DOMAIN entries}
           /\ SetOf(ps.keys) = DOMAIN ps.cnt
           /\ Len(ps.keys) = Cardinality(DOMAIN ps.cnt)
           /\ \A k \in DOMAIN ps.cnt :
                ps.cnt[k] = SumEntries(entries,
                               {i \in DOMAIN entries : EntryPiece(entries[i]) = k})
           /\ from_dict([data EXCEPT !.pieces = Reversed(entries)]).config.pieces.cnt
                = ps.cnt

\* a configuration just built from three entries, two of them the same piece
\* drawn in two orientations, one of these without a count
C22_Witness ==
    /\ Len(data.pieces) = 3
    /\ Loadable(data)
    /\ config = from_dict(data).config
    /\ Len(config.pieces.keys) = 2
    /\ \E i, j \in DOMAIN data.pieces :
         /\ i < j
         /\ data.pieces[i].shape # data.pieces[j].shape
         /\ EntryPiece(data.pieces[i]) = EntryPiece(data.pieces[j])
         /\ "count" \notin DOMAIN data.pieces[i]
         /\ "count" \in DOMAIN data.pieces[j]
         /\ config.pieces.cnt[EntryPiece(data.pieces[i])] = 1 + data.pieces[j].count

SameDefinition(c, d) ==
    /\ c.name = d.name
    /\ c.board_width = d.board_width
    /\ c.board_height = d.board_height
    /\ c.blocked_cells = d.blocked_cells
    /\ c.pieces.cnt = d.pieces.cnt

AllPiecesValid(c) == \A k \in DOMAIN c.pieces.cnt : validate_piece_shape(k) = << >>

\* C23 as stated: for every configuration c, from_dict(to_dict(c)) has the
\* name, board width and height, blocked cells and piece counts of c.
C23_SaveLoadLosesNothing ==
    config # NoConfig =>
        LET r == from_dict(to_dict(config))
        IN ~r.raised /\ SameDefinition(r.config, config)

\* C23 amended: for every configuration c whose pieces all pass
\* validate_piece_shape, from_dict(to_dict(c)) has the name, board width and
\* height, blocked cells and piece counts of c; for a configuration holding a
\* piece that does not pass, from_dict(to_dict(c)) raises.
C23_SaveLoadOfValidPieces ==
    config # NoConfig =>
        LET r == from_dict(to_dict(config))
        IN /\ r.raised <=> ~AllPiecesValid(config)
           /\ ~r.raised => SameDefinition(r.config, config)

\* a configuration with a blocked cell, a name of two words and two pieces,
\* one of them with a count changed since construction
C23_Witness ==
    /\ config # NoConfig
    /\ AllPiecesValid(config)
    /\ config.blocked_cells # {}
    /\ Len(config.name) = 3
    /\ Len(config.pieces.keys) = 2
    /\ \E k \in DOMAIN config.pieces.cnt : config.pieces.cnt[k] = MaxStored

\* C24 as stated: after any sequence of add_piece, remove_piece and
\* update_piece calls, every piece stored in the configuration has a count of
\* at least 1.
C24_StoredCountsPositive ==
    config # NoConfig =>
        \A k \in DOMAIN config.pieces.cnt : config.pieces.cnt[k] >= 1

\* C24, the part that holds: remove_piece never leaves a count of 0, and a
\* call with a count of at least 1 on a configuration with counts of at least
\* 1 leaves counts of at least 1
C24_PositiveArgumentsKeepPositive ==
    (config # NoConfig /\ C24_StoredCountsPositive) =>
        \A piece \in EditPieces, count \in CountArgs :
            /\ \A k \in DOMAIN remove_piece(config, piece, count).config.pieces.cnt :
                 remove_piece(config, piece, count).config.pieces.cnt[k] # 0
            /\ count >= 1 =>
                 /\ \A k \in DOMAIN add_piece(config, piece, count).config.pieces.cnt :
                      add_piece(config, piece, count).config.pieces.cnt[k] >= 1
                 /\ \A k \in DOMAIN remove_piece(config, piece, count).config.pieces.cnt :
                      remove_piece(config, piece, count).config.pieces.cnt[k] >= 1
                 /\ \A k \in DOMAIN update_piece(config, piece, count).config.pieces.cnt :
                      update_piece(config, piece, count).config.pieces.cnt[k] >= 1

(***************************************************************************)
(* Properties of the search: one board call per step, order of the         *)
(* candidates, target cell, stack discipline.                              *)
(***************************************************************************)
\* the cells whose content differs before and after a step
ChangedCells == {x \in DOMAIN board.cells : board'.cells[x] # board.cells[x]}

\* C25: a step that yields no event (also close() on the engine just
\* created) leaves the board as it is; a step that yields place has put
\* exactly the cells of the new top record on the board, one that yields
\* remove has emptied exactly the cells of the record it popped, and one that
\* yields solved or no_solution has changed no cell.
C25_OneBoardCallPerStep ==
    [][/\ events' = events => board' = board
       /\ Emits("place") =>
            /\ placed' = Append(placed, placed'[Len(placed')])
            /\ ChangedCells = Translate(placed'[Len(placed')].shape,
                                         placed'[Len(placed')].pos)
            /\ \A x \in ChangedCells : board.cells[x] = EMPTY
       /\ Emits("remove") =>
            /\ placed' = SubSeq(placed, 1, Len(placed) - 1)
            /\ ChangedCells = Translate(placed[Len(placed)].shape,
                                         placed[Len(placed)].pos)
            /\ \A x \in ChangedCells : board'.cells[x] = EMPTY
       /\ (Emits("solved") \/ Emits("no_solution")) =>
            board' = board /\ placed' = placed]_vars

\* a search that placed twice, removed with two records on the stack, placed
\* again and has come to its terminal event
C25_Witness ==
    /\ Terminated
    /\ \E i \in 1..(Len(events) - 1) :
         /\ events[i].type = "remove"
         /\ i >= 3
         /\ events[i - 1].type = "place"
         /\ events[i - 2].type = "place"
         /\ events[i + 1].type = "place"


\* C26: two runs on an equal board and an equal mapping yield the same
\* events.  twin holds the events of a run consumed to its end at once; the
\* events a consumer has received from the other run, however it spaced,
\* interleaved or cut short its requests, are the first events of twin: same
\* types, same step counts, and the placement stack of the last event is
\* the one the solver holds; a run consumed to its end has all of them.
C26_EventsAreThoseOfTheTwinRun ==
    /\ Len(events) <= Len(twin)
    /\ \A i \in 1..Len(events) :
         /\ events[i].type = twin[i].type
         /\ events[i].step_count = twin[i].step_count
    /\ (events # << >> /\ result # "ValueError") =>
         placed = twin[Len(events)].placed
    /\ (gen = "finished" /\ result # "ValueError") => events # << >> /\ Len(events) = Len(twin)

\* a run stopped by close() in the middle of a search, after a backtrack
C26_Witness ==
    /\ gen = "closed"
    /\ LastIs("remove")
    /\ Len(events) >= 3
    /\ Len(events) < Len(twin)

IndexIn(s, x) == CHOOSE i \in 1..Len(s) : s[i] = x

\* some orientation of piece p can be placed on b with its first cell on cell
Fits(b, p, cell) ==
    \E i \in 1..Len(OrientationsOf[p]) :
       can_place_shape(b, OrientationsOf[p][i], Origin(cell, OrientationsOf[p][i]))

\* the counts the loops of the next step read
CountsRead == IF gen = "created" THEN heap[piecesRef] ELSE heap[remainingRef]

\* larger area first, equal areas by canonical shape
ShapeOrder(p, q) ==
    \/ Area(p) > Area(q)
    \/ Area(p) = Area(q) /\ ShapeLess(p, q)

\* larger area first, equal areas as the caller inserted them
InsertionOrder(p, q) ==
    \/ Area(p) > Area(q)
    \/ Area(p) = Area(q) /\ IndexIn(input.keys, p) < IndexIn(input.keys, q)

TriedBefore(byShape, p, q) ==
    IF byShape THEN ShapeOrder(p, q) ELSE InsertionOrder(p, q)

\* A step that places a piece places the first candidate of the order that
\* has a count above 0 and fits the target cell: first of all pieces in a new
\* call of backtrack(), first after the piece just taken back in a call that
\* goes on after a remove.
PlacesFirst(byShape) ==
    LET q == placed'[Len(placed')].piece
        cell == find_next_empty(board)
        Passed(p) == DictGet(CountsRead, p, 0) <= 0 \/ ~Fits(board, p, cell)
    IN /\ DictGet(CountsRead, q, 0) > 0
       /\ IF Len(frames') = Len(frames) + 1
          THEN \A p \in DOMAIN CountsRead.cnt : TriedBefore(byShape, p, q) => Passed(p)
          ELSE LET q0 == piece_types[frames[Len(frames)].pi]
               IN \/ q = q0
                  \/ /\ TriedBefore(byShape, q0, q)
                     /\ \A p \in DOMAIN CountsRead.cnt :
                          (TriedBefore(byShape, q0, p) /\ TriedBefore(byShape, p, q))
                             => Passed(p)

\* C27 as stated: at every target cell the pieces are tried by descending
\* area, equal areas in the lexicographic order of their canonical shapes
\* whatever the insertion order, and pieces with a count of 0 or less are
\* skipped.
C27_TriedByAreaThenShape ==
    [][Emits("place") => PlacesFirst(TRUE)]_vars

\* C27, amended: at every target cell the pieces are tried by descending
\* area, equal areas in the insertion order of the input mapping, and pieces
\* with a count of 0 or less are skipped.
C27_TriedByAreaThenInsertion ==
    [][Emits("place") => PlacesFirst(FALSE)]_vars

\* both trominoes fit the first cell and the one inserted first, which is the
\* later one by canonical shape, was placed
C27_Witness ==
    /\ LastIs("place")
    /\ Len(placed) = 1
    /\ \E p, q \in DOMAIN input.cnt :
         /\ Area(p) = Area(q)
         /\ ShapeLess(q, p)
         /\ IndexIn(input.keys, p) < IndexIn(input.keys, q)
         /\ input.cnt[p] > 0 /\ input.cnt[q] > 0
         /\ Fits(StartBoard, p, <<0, 0>>) /\ Fits(StartBoard, q, <<0, 0>>)
         /\ placed[1].piece = p

\* the cells the record on top of the new stack covers
PlacedCells == Translate(placed'[Len(placed')].shape, placed'[Len(placed')].pos)

\* C28: the placement of every place event covers the first cell, row by row,
\* that was empty on the board just before it; that cell is the smallest cell
\* of the placed orientation, and after the placement no empty cell precedes
\* it.
C28_PlacementCoversFirstEmptyCell ==
    [][Emits("place") =>
         \E c \in {MinCell(PlacedCells)} :
            /\ c \in DOMAIN board.cells
            /\ board.cells[c] = EMPTY
            /\ \A x \in DOMAIN board.cells : CellLess(x, c) => board.cells[x] # EMPTY
            /\ {c} = Translate({MinCell(placed'[Len(placed')].shape)},
                               placed'[Len(placed')].pos)
            /\ \A x \in DOMAIN board'.cells : CellLess(x, c) => board'.cells[x] # EMPTY
            /\ board'.cells[c] # EMPTY]_vars

\* a bent tromino placed in the orientation whose smallest cell is not its
\* corner, on a board with a blocked cell and a piece placed before it
C28_Witness ==
    /\ LastIs("place")
    /\ Len(placed) >= 2
    /\ MinCell(placed[Len(placed)].shape) # <<0, 0>>
    /\ placed[Len(placed)].pos # MinCell(RecordCells(Len(placed)))
    /\ board.blocked_cells # {}

\* C29: in a search on any board, one that already holds a shape included,
\* place_shape is called only where can_place_shape is true, remove_shape
\* only on the record pushed last and not yet popped, the board changes in no
\* other way, and no call of the solver ends in an error of the board.
C29_BoardCallsNeverRaise ==
    [][/\ result' # "ValueError"
       /\ board' # board => (Emits("place") \/ Emits("remove"))
       /\ Emits("place") =>
            \E rec \in {placed'[Len(placed')]} :
               /\ placed' = Append(placed, rec)
               /\ can_place_shape(board, rec.shape, rec.pos)
               /\ board' = place_shape(board, rec.shape, rec.pos).board
       /\ Emits("remove") =>
            /\ placed # << >>
            /\ \E rec \in {placed[Len(placed)]} :
                  /\ placed' = SubSeq(placed, 1, Len(placed) - 1)
                  /\ ~remove_shape(board, rec.shape, rec.pos).raised
                  /\ board' = remove_shape(board, rec.shape, rec.pos).board]_vars

\* a search that has backtracked under two records on a board holding a
\* shape the search did not place
C29_Witness ==
    /\ HasEvent("remove")
    /\ Len(placed) >= 2
    /\ LastIs("place")
    /\ \E x \in FreeCells :
         /\ board.cells[x] # EMPTY
         /\ \A i \in 1..Len(placed) : x \notin RecordCells(i)

NonEmptyCells == {x \in DOMAIN board.cells : board.cells[x] # EMPTY}

\* C30: in a search started on a board with no placed pieces, at every event
\* the non-empty cells of the board are the blocked cells and the cells of
\* the records on the stack: the records overlap neither each other nor a
\* blocked cell, every cell of a record is occupied, by the tag of its
\* shape, and no other cell is.
C30_BoardIsBlockedPlusStack ==
    /\ NonEmptyCells =
         board.blocked_cells \cup UNION {RecordCells(i) : i \in 1..Len(placed)}
    /\ \A i, j \in 1..Len(placed) :
         i # j => RecordCells(i) \cap RecordCells(j) = {}
    /\ \A i \in 1..Len(placed) :
         /\ RecordCells(i) \cap board.blocked_cells = {}
         /\ \A x \in RecordCells(i) : board.cells[x] = ShapeHash(placed[i].shape)
    /\ \A x \in board.blocked_cells : board.cells[x] = BLOCKED

\* just after a backtrack, with a record left on the stack, a blocked cell
\* and an empty cell
C30_Witness ==
    /\ LastIs("remove")
    /\ Len(placed) >= 1
    /\ board.blocked_cells # {}
    /\ NonEmptyCells # DOMAIN board.cells
    /\ Len(events) >= 5

\* C31: when no_solution is emitted the search has undone everything: the
\* stack is empty, the board is the board the search started on (blocked
\* cells only), and remaining holds the entries of the input with the counts
\* of the input.
C31_NoSolutionLeavesNothing ==
    LastIs("no_solution") =>
        /\ placed = << >>
        /\ frames = << >>
        /\ board = StartBoard
        /\ DOMAIN Remaining.cnt = DOMAIN input.cnt
        /\ \A p \in DOMAIN input.cnt : Remaining.cnt[p] = input.cnt[p]

\* a failed search over two piece types that placed and took back at least
\* three times on a board with a blocked cell
C31_Witness ==
    /\ LastIs("no_solution")
    /\ Len(events) >= 7
    /\ board.blocked_cells # {}
    /\ Cardinality({p \in DOMAIN input.cnt : input.cnt[p] > 0}) >= 2
    /\ Remaining.keys # input.keys

\* C32: within one search no two place events leave the same placement
\* stack: the stack a place event leaves is the stack of no earlier place
\* event of the run (the earlier events of the run are those of twin), so
\* after a remove no piece and orientation is tried again on the same
\* earlier placements.
C32_NoStackTwice ==
    LastIs("place") =>
        \A j \in 1..(Len(events) - 1) :
            (j <= Len(twin) /\ twin[j].type = "place") => twin[j].placed # placed

\* a place event after three backtracks, with a record under the new one
C32_Witness ==
    /\ LastIs("place")
    /\ Len(placed) >= 2
    /\ Cardinality({j \in 1..Len(events) : events[j].type = "remove"}) >= 3
    /\ \E j \in 1..(Len(events) - 1) :
         /\ twin[j].type = "place"
         /\ Len(twin[j].placed) = Len(placed)
         /\ twin[j].placed[1] = placed[1]

\* C33: remove_piece(piece, count) on the configuration raises and leaves
\* the configuration as it was when the piece has no entry or count is larger
\* than the stored count; otherwise it does not raise, the entry of the piece
\* holds the stored count less count, or is gone when that is 0, and the
\* other entries and the other fields are as they were.
C33_RemovePieceLowersOrRaises ==
    config # NoConfig =>
        \A piece \in EditPieces, count \in CountArgs :
            LET r == remove_piece(config, piece, count)
                old == config.pieces
                new == r.config.pieces
            IN IF ~DictHas(old, piece) \/ count > old.cnt[piece]
               THEN r.raised /\ r.config = config
               ELSE /\ ~r.raised
                    /\ [r.config EXCEPT !.pieces = old] = config
                    /\ DOMAIN new.cnt \ {piece} = DOMAIN old.cnt \ {piece}
                    /\ \A p \in DOMAIN old.cnt \ {piece} : new.cnt[p] = old.cnt[p]
                    /\ SelectSeq(new.keys, LAMBDA x : x # piece)
                         = SelectSeq(old.keys, LAMBDA x : x # piece)
                    /\ IF old.cnt[piece] - count = 0
                       THEN ~DictHas(new, piece)
                       ELSE /\ DictHas(new, piece)
                            /\ new.cnt[piece] = old.cnt[piece] - count

\* a configuration on which the four cases arise: a piece without an entry,
\* a piece stored twice or more (count 1 lowers it, its own count deletes it,
\* MaxCount exceeds it or not) next to another entry
C33_Witness ==
    /\ config # NoConfig
    /\ \E p, q, a \in EditPieces :
         /\ p # q
         /\ DictHas(config.pieces, p) /\ DictHas(config.pieces, q)
         /\ ~DictHas(config.pieces, a)
         /\ config.pieces.cnt[p] = 2
         /\ config.pieces.cnt[q] = 1
         /\ remove_piece(config, a, 1).raised
         /\ remove_piece(config, q, 2).raised
         /\ ~DictHas(remove_piece(config, p, 2).config.pieces, p)
         /\ remove_piece(config, p, 1).config.pieces.cnt[p] = 1

(***************************************************************************)
(* Properties of the VisualizationWindow.                                  *)
(***************************************************************************)
\* C34: no handler of the window calls next() on a generator that has
\* already yielded its terminal event.
C34_NoRequestAfterEnd == ~window.late

\* what holds: a terminal event consumed by the timer or by Play leaves no
\* generator behind
C34_TickAndPlayTearDown ==
    (window.event.type \in TerminalTypes /\ window.last # "step")
        => window.generator = NoGenerator

\* Pause was the last handler
Paused(w) == w.last = "play_pause" /\ w.status.text = "Paused"

\* C35: a Play that follows a Pause creates no generator and hands the
\* widget the event that follows the last one yielded (the generator is
\* dropped when that event is terminal, or when no event is left); a Play or
\* a Step without a generator creates one, and the run of that generator is
\* the run of solve_backtracking on the configuration's pieces and a board
\* that holds its blocked cells only, which starts with its first event.
C35_SameSearchAfterPauseNewAfterStop ==
    [][/\ (Paused(window) /\ window'.last = "play_pause" /\ window' # window)
            => /\ window'.searches = window.searches
               /\ IF Ended(window.generator)
                  THEN window'.event = NoEvent /\ window'.generator = NoGenerator
                  ELSE /\ window'.event
                            = window.generator.run[window.generator.yielded + 1]
                       /\ IF window'.event.type \in TerminalTypes
                          THEN window'.generator = NoGenerator
                          ELSE window'.generator
                                 = [window.generator EXCEPT !.yielded = @ + 1]
       /\ (~window.generator.made /\ window'.last \in {"play_pause", "step"}
             /\ window' # window)
            => /\ window'.searches = window.searches + 1
               /\ window'.event = twin[1]
               /\ window'.generator.made
                    => /\ window'.generator.run = twin
                       /\ window'.generator.yielded = 1
      ]_vars

\* the second search was paused after three events or more and Play has
\* handed over the next event
C35_Witness ==
    /\ window.last = "play_pause" /\ window.prev = "play_pause"
    /\ window.is_playing
    /\ window.searches = 2
    /\ window.generator.made /\ window.generator.yielded >= 4
    /\ window.event = twin[window.generator.yielded]

\* C36: after every handler the timer is active exactly when _is_playing
\* is true, and _is_playing true implies that a generator exists.
C36_TimerFollowsPlaying ==
    /\ window.timer_active <=> window.is_playing
    /\ window.is_playing => window.generator.made

\* a tick has consumed the terminal event and stopped the timer it came from
C36_Witness ==
    /\ window.last = "tick"
    /\ window.event.type \in TerminalTypes
    /\ ~window.timer_active /\ ~window.is_playing
    /\ window.generator = NoGenerator

TerminalMessage(type) ==
    IF type = "solved" THEN "SOLUTION FOUND!"
    ELSE "No solution exists for this puzzle."

\* C37: a handler that has consumed a solved or a no_solution event leaves
\* the matching terminal message in the status label.
C37_TerminalMessageShown ==
    window.event.type \in TerminalTypes
        => window.status.text = TerminalMessage(window.event.type)

\* what holds: a tick that consumes the terminal event shows its message
C37_TickShowsTerminalMessage ==
    (window.event.type \in TerminalTypes /\ window.last = "tick")
        => window.status.text = TerminalMessage(window.event.type)

(***************************************************************************)
(* Properties of the editor.                                               *)
(***************************************************************************)
\* C38: the configuration of the editor holds the pieces the piece tab
\* shows, each with the count the tab shows.
C38_ConfigurationHoldsTheTabsPieces ==
    /\ DOMAIN config.pieces.cnt = DOMAIN editor.pieces.cnt
    /\ \A p \in DOMAIN editor.pieces.cnt : config.pieces.cnt[p] = editor.pieces.cnt[p]

\* C39: after a load the configuration and the board tab hold the width,
\* the height and the blocked cells of the file.
C39_LoadShowsTheFile ==
    editor.loaded # NoConfig =>
        /\ config.board_width = editor.loaded.board_width
        /\ config.board_height = editor.loaded.board_height
        /\ config.blocked_cells = editor.loaded.blocked_cells
        /\ editor.width = editor.loaded.board_width
        /\ editor.height = editor.loaded.board_height
        /\ editor.grid.blocked = editor.loaded.blocked_cells

\* what holds: after a load the sides are those of the file, the board tab
\* shows the blocked cells of the configuration, and the pieces and the name
\* are those of the file
C39_LoadTakesTheSides ==
    editor.loaded # NoConfig =>
        /\ config.board_width = editor.loaded.board_width
        /\ config.board_height = editor.loaded.board_height
        /\ editor.width = editor.loaded.board_width
        /\ editor.height = editor.loaded.board_height
        /\ editor.grid.width = editor.loaded.board_width
        /\ editor.grid.height = editor.loaded.board_height
        /\ editor.grid.blocked = config.blocked_cells
        /\ config.pieces = editor.loaded.pieces
        /\ config.name = editor.loaded.name
        /\ editor.pieces = config.pieces

(***************************************************************************)
(* Properties of the PuzzleBoard.                                          *)
(***************************************************************************)
\* the cells of the entries of placed_pieces
EntryCells(b) ==
    UNION {SetOf(BoardCellsOf(e[1], e[2], e[3])) : e \in SetOf(b.placed_pieces)}

FilledIsInitialPlusPlaced(b) == b.filled_cells = b.initial \cup EntryCells(b)

\* C40: filled_cells is the initially filled cells plus the cells of the
\* entries of placed_pieces, and a remove_piece for a transformation, row and
\* column that is no entry of placed_pieces raises PieceRemovalError and
\* leaves filled_cells and placed_pieces as they were.
C40_FilledIsInitialPlusPlaced ==
    /\ FilledIsInitialPlusPlaced(puzzle_board)
    /\ \A transformation \in Transformations, row \in CallPositions,
          col \in CallPositions :
          << transformation, row, col >> \notin SetOf(puzzle_board.placed_pieces)
             => take_piece(puzzle_board, transformation, row, col)
                  = [puzzle_board EXCEPT !.raised = "PieceRemovalError"]

\* the entries of placed_pieces overlap neither each other nor the initially
\* filled cells, and filled_cells holds their cells and the initial ones
WellPlaced(b) ==
    /\ FilledIsInitialPlusPlaced(b)
    /\ \A i \in DOMAIN b.placed_pieces :
          LET cells(k) == SetOf(BoardCellsOf(b.placed_pieces[k][1],
                                             b.placed_pieces[k][2],
                                             b.placed_pieces[k][3]))
          IN /\ cells(i) \cap b.initial = {}
             /\ \A j \in DOMAIN b.placed_pieces : i # j => cells(i) \cap cells(j) = {}

\* what holds: on such a board every insert_piece and every remove_piece of
\* an entry of placed_pieces leave such a board, and the removal of an entry
\* does not raise
C40_InsertAndRemoveOfAnEntryKeep ==
    WellPlaced(puzzle_board) =>
        /\ \A transformation \in Transformations, row \in CallPositions,
              col \in CallPositions :
              WellPlaced(insert_piece(puzzle_board, transformation, row, col))
        /\ \A e \in SetOf(puzzle_board.placed_pieces) :
              LET r == take_piece(puzzle_board, e[1], e[2], e[3])
              IN r.raised = "none" /\ WellPlaced(r)

=============================================================================
